---- MODULE Spec2Model ----
(***************************************************************************)
(* Model of the dependency core of pixi-build-backends: target resolution, *)
(* requirement aggregation, variant eligibility and substitution, and pin  *)
(* resolution (crates/pixi-build-backend).                                 *)
(*                                                                         *)
(* Conventions.  Option<T> is a sequence of length 0 (None) or 1 (Some):   *)
(* this is Option::into_iter / Option::iter, which the code itself uses.   *)
(* An IndexMap / OrderMap is a sequence of [name, spec] entries with       *)
(* pairwise distinct names, in the map's iteration order.  A reference     *)
(* &Target is a TargetRef: two targets of equal content stay distinct.     *)
(***************************************************************************)
EXTENDS Integers, Sequences, FiniteSets, TLC

VARIABLES
    \* --- target resolution and requirement aggregation -------------------
    project_targets,   \* the TargetsV1 value (self)
    platform,          \* Option<Platform>
    op,                \* the method called last ("init" before any call)
    resolved,          \* result of resolve: sequence of TargetRef
    deps,              \* result of *_dependencies: Dependencies {run, host, build}
    \* --- variant eligibility ---------------------------------------------
    package_spec,      \* the PackageSpecV1 value (self)
    variant_op,        \* "init" or "can_be_used_as_variant"
    eligible,          \* result of can_be_used_as_variant
    \* --- dependency conversion (dependencies.rs) --------------------------
    raw_specs,         \* Vec<Dependency>: the list handed to the entry point
    variant,           \* BTreeMap<NormalizedKey, Variable>
    subpackages,       \* HashMap<PackageName, PackageIdentifier>
    compatibility_specs, \* HashMap<PackageName, PackageRecord>
    sources,           \* HashMap<String, SourcePackageSpecV1>
    build_time,        \* apply_variant's build_time argument
    dep_op,            \* the entry point called last ("init" before any call)
    dep_result,        \* its Result
    \* --- conditional evaluation (recipe-stage0 recipe.rs) -----------------
    requirements,      \* Option<ConditionalRequirements> of the recipe (self)
    host_platform,     \* the platform handed to the evaluator
    eval_op,           \* the evaluator called last ("init" before any call)
    evaluated,         \* its outcome
    \* --- conversion of targets into conditional requirements -------------
    target_requirements, \* TargetRequirements.target: HashMap<Target, Requirements>
    project_model,     \* the ProjectModelV1 handed to the conversion
    conv_op,           \* the conversion called last ("init" before any call)
    conv_calls,        \* the outcomes of the successive calls on this input
    \* --- serialization (serde) --------------------------------------------
    ser_input,         \* the value handed to the serializer
    ser_document,      \* Option of the document written
    ser_op,            \* "init", "serialize" or "deserialize"
    ser_output,        \* the Result of reading the document back
    \* --- backend configuration (config.rs of the backends) ----------------
    config_backend,    \* the backend whose configuration is merged
    base_config,       \* the base configuration (self)
    target_config,     \* the target-specific configuration
    config_op,         \* "init" or "merge_with_target_config"
    merged,            \* the Result of the merge
    \* --- recipe generators (pixi-build-zig, pixi-build-pixi main.rs) -------
    generator,         \* the tool package of the generator: "zig" or "pixi"
    gen_model,         \* the ProjectModelV1 handed to generate_recipe
    gen_host_platform, \* the host platform handed to generate_recipe
    gen_op,            \* "init" or "generate_recipe"
    gen_result,        \* the Result of generate_recipe
    \* --- conda_outputs (pixi-build-rattler-build protocol.rs) --------------
    discovered_outputs, \* the outputs found in the recipe, in discovery order
    out_done,          \* how many of them the loop has taken
    out_subpackages,   \* HashMap<PackageName, PackageIdentifier>
    out_outputs,       \* Vec<CondaOutput>
    out_result,        \* "Running", or the Result conda_outputs returned
    \* --- PyPiToCondaMapper (pixi-build-python pypi_mapping.rs) -------------
    map_cache_dir,     \* Option<PathBuf> of the mapper
    map_clock,         \* SystemTime::now()
    map_files,         \* the cache files: package -> [content, modified]
    map_calls,         \* the get_mapping calls made, oldest first
    \* --- conda_build of the Python backend (protocol.rs) -------------------
    built_outputs,     \* the outputs of the recipe, resolved
    output_identifiers, \* params.outputs: Option<Vec<CondaOutputIdentifier>>
    sel_op,            \* "init" | "conda_build"
    selected_outputs,  \* the outputs chosen for building, in order
    \* --- the two ways from a model's targets to a platform's packages -----
    ref_targets,       \* a TargetsV1 value
    ref_platform,      \* the platform asked for
    ref_op,            \* "init" | "resolve"
    ref_converted,     \* names per list, by conversion and resolve
    ref_aggregated,    \* names per list, by Targets::resolve
    \* --- the shared stderr writer of the tracing layers (cli.rs) -----------
    thread_pc,         \* where each thread is in its write
    thread_payload,    \* the encoded payload each thread writes
    writer_lock,       \* the thread holding the Mutex, or 0
    writer_buffer,     \* the bytes the LineWriter holds
    stderr_bytes       \* the bytes that reached stderr

targetVars == <<project_targets, platform, op, resolved, deps>>
eligVars == <<package_spec, variant_op, eligible>>
depInputs == <<raw_specs, variant, subpackages, compatibility_specs, sources>>
depVars == <<depInputs, build_time, dep_op, dep_result>>
evalVars == <<requirements, host_platform, eval_op, evaluated>>
convVars == <<target_requirements, project_model, conv_op, conv_calls>>
serdeVars == <<ser_input, ser_document, ser_op, ser_output>>
recipeVars == <<evalVars, convVars, serdeVars>>
configVars == <<config_backend, base_config, target_config, config_op, merged>>
genVars == <<generator, gen_model, gen_host_platform, gen_op, gen_result>>
outVars == <<discovered_outputs, out_done, out_subpackages, out_outputs, out_result>>
mapVars == <<map_cache_dir, map_clock, map_files, map_calls>>
selVars == <<built_outputs, output_identifiers, sel_op, selected_outputs>>
refVars == <<ref_targets, ref_platform, ref_op, ref_converted, ref_aggregated>>
logVars == <<thread_pc, thread_payload, writer_lock, writer_buffer, stderr_bytes>>
backendVars == <<configVars, genVars, outVars, mapVars, selVars, refVars, logVars>>
vars == <<targetVars, eligVars, depVars, recipeVars, backendVars>>

None == <<>>
Some(x) == <<x>>
Options(S) == {None} \cup {Some(x) : x \in S}

(***************************************************************************)
(* Bounds of the model.                                                    *)
(***************************************************************************)
MaxTargets == 2     \* entries of the selector-bound targets map
MaxValueLen == 2    \* characters of an enumerated variant value
MaxSetFields == 1   \* fields set besides the name in an enumerated MatchSpec
MaxDeps == 2        \* elements of an enumerated dependency list

(***************************************************************************)
(* Platforms and selectors.                                                *)
(***************************************************************************)
Platforms == {"linux-64", "osx-arm64", "win-64", "noarch"}

is_linux(p) == p \in {"linux-64"}
is_osx(p) == p \in {"osx-arm64"}
is_windows(p) == p \in {"win-64"}
is_unix(p) == is_linux(p) \/ is_osx(p)

SelPlatform(s) == [kind |-> "Platform", name |-> s]
SelLinux == [kind |-> "Linux", name |-> ""]
SelUnix == [kind |-> "Unix", name |-> ""]
SelWin == [kind |-> "Win", name |-> ""]
SelMacOs == [kind |-> "MacOs", name |-> ""]

\* "not-a-platform" is a Platform(s) selector whose string names no platform.
Selectors ==
    {SelPlatform("linux-64"), SelPlatform("not-a-platform"),
     SelLinux, SelUnix, SelWin, SelMacOs}

matches(selector, p) ==
    CASE selector.kind = "Platform" -> selector.name = p
      [] selector.kind = "Linux" -> is_linux(p)
      [] selector.kind = "Unix" -> is_unix(p)
      [] selector.kind = "Win" -> is_windows(p)
      [] selector.kind = "MacOs" -> is_osx(p)

(***************************************************************************)
(* Package specs (project model side).                                     *)
(***************************************************************************)
BinaryFields ==
    {"version", "build", "build_number", "file_name", "channel", "subdir",
     "md5", "sha256"}

VersionAny == "*"

BinaryPackageSpecV1(version, build, build_number, file_name, channel, subdir, md5, sha256) ==
    [version |-> version, build |-> build, build_number |-> build_number,
     file_name |-> file_name, channel |-> channel, subdir |-> subdir,
     md5 |-> md5, sha256 |-> sha256]

Binary(b) == [kind |-> "Binary", binary |-> Some(b), source |-> None]
Source(s) == [kind |-> "Source", binary |-> None, source |-> Some(s)]

BinaryVersion(v) ==
    Binary(BinaryPackageSpecV1(Some(v), None, None, None, None, None, None, None))

\* Targets::empty_spec / AnyVersion::any
empty_spec == BinaryVersion(VersionAny)

(***************************************************************************)
(* IndexMap: insertion-ordered map with overwrite in place.                *)
(***************************************************************************)
Entry(n, s) == [name |-> n, spec |-> s]

Keys(m) == {m[i].name : i \in 1..Len(m)}

IndexOf(m, n) == CHOOSE i \in 1..Len(m) : m[i].name = n

Get(m, n) == m[IndexOf(m, n)].spec

insert_keeps_first(m, e) ==
    IF e.name \in Keys(m) THEN m ELSE Append(m, e)

insert(m, e) ==
    IF e.name \in Keys(m)
    THEN [m EXCEPT ![IndexOf(m, e.name)] = e]
    ELSE Append(m, e)

RECURSIVE collect(_)
collect(entries) ==
    IF entries = <<>> THEN <<>>
    ELSE insert(collect(SubSeq(entries, 1, Len(entries) - 1)),
                entries[Len(entries)])

RECURSIVE Flatten(_)
Flatten(seqs) ==
    IF seqs = <<>> THEN <<>> ELSE Head(seqs) \o Flatten(Tail(seqs))

(***************************************************************************)
(* Targets (project model side).                                           *)
(***************************************************************************)
TargetV1(build, host, run) ==
    [build_dependencies |-> build, host_dependencies |-> host,
     run_dependencies |-> run]

TargetA ==
    TargetV1(Some(<<Entry("foo", empty_spec), Entry("bar", BinaryVersion(">=1.0"))>>),
             Some(<<Entry("foo", BinaryVersion(">=1.0"))>>),
             None)

TargetB ==
    TargetV1(Some(<<Entry("bar", empty_spec), Entry("baz", empty_spec),
                    Entry("foo", BinaryVersion("2.*"))>>),
             Some(<<Entry("bar", empty_spec), Entry("foo", empty_spec)>>),
             Some(<<Entry("foo", empty_spec)>>))

TargetPool == {TargetA, TargetB}

\* OrderMap<TargetSelectorV1, TargetV1>: distinct selectors, any order.
SelectorMaps ==
    UNION {{m \in [1..n -> [selector : Selectors, target : TargetPool]] :
              \A i, j \in 1..n : i # j => m[i].selector # m[j].selector}
           : n \in 0..MaxTargets}

TargetsV1 ==
    [default_target : Options(TargetPool), targets : Options(SelectorMaps)]

\* A reference to a target of a TargetsV1 value: its default target, or the
\* index-th entry of its targets map.
DefaultRef == [default |-> TRUE, index |-> 0]
EntryRef(i) == [default |-> FALSE, index |-> i]

Deref(self, ref) ==
    IF ref.default THEN self.default_target[1]
    ELSE self.targets[1][ref.index].target

default_target(self) ==
    IF self.default_target = None THEN None ELSE Some(DefaultRef)

\* self.targets.iter().flatten(): the entries of the map, if there is one
targets(self) ==
    IF self.targets = None THEN <<>>
    ELSE [i \in 1..Len(self.targets[1]) |->
            [selector |-> self.targets[1][i].selector, target |-> EntryRef(i)]]

\* targets().filter_map(|(selector, target)| selector.matches(p).then(target))
Refs(entries) == [i \in 1..Len(entries) |-> entries[i].target]

resolve_ignores_platform(self, plat) ==
    default_target(self) \o Refs(targets(self))

resolve_default_last(self, plat) ==
    IF plat # None
    THEN Refs(SelectSeq(targets(self), LAMBDA e : matches(e.selector, plat[1])))
            \o default_target(self)
    ELSE default_target(self)

\* Targets::resolve
resolve(self, plat) ==
    IF plat # None
    THEN default_target(self)
            \o Refs(SelectSeq(targets(self), LAMBDA e : matches(e.selector, plat[1])))
    ELSE default_target(self)

\* TargetSelectorExt::matches
ext_matches(selector, p) ==
    CASE selector.kind = "Platform" -> selector.name = p
      [] selector.kind = "Linux" -> is_linux(p)
      [] selector.kind = "Unix" -> is_unix(p)
      [] selector.kind = "Win" -> is_windows(p)
      [] selector.kind = "MacOs" -> is_osx(p)

\* TargetsExt::resolve
ext_resolve(self, plat) ==
    IF plat # None
    THEN default_target(self)
            \o Refs(SelectSeq(targets(self), LAMBDA e : ext_matches(e.selector, plat[1])))
    ELSE default_target(self)

\* targets.iter().flat_map(|t| t.<field>.iter()).flatten(): the entries of
\* the field's map of every resolved target, in resolution order
FieldEntries(self, refs, field) ==
    Flatten([i \in 1..Len(refs) |-> Flatten(Deref(self, refs[i])[field])])

run_dependencies(self, plat) ==
    collect(FieldEntries(self, resolve(self, plat), "run_dependencies"))

host_dependencies(self, plat) ==
    collect(FieldEntries(self, resolve(self, plat), "host_dependencies"))

build_dependencies(self, plat) ==
    collect(FieldEntries(self, resolve(self, plat), "build_dependencies"))

Dependencies(run, host, build) == [run |-> run, host |-> host, build |-> build]

dependencies(self, plat) ==
    Dependencies(run_dependencies(self, plat), host_dependencies(self, plat),
                 build_dependencies(self, plat))

ext_run_dependencies(self, plat) ==
    collect(FieldEntries(self, ext_resolve(self, plat), "run_dependencies"))

ext_host_dependencies(self, plat) ==
    collect(FieldEntries(self, ext_resolve(self, plat), "host_dependencies"))

ext_build_dependencies(self, plat) ==
    collect(FieldEntries(self, ext_resolve(self, plat), "build_dependencies"))

(***************************************************************************)
(* Specification of target resolution: the inputs are drawn in TargetsInit *)
(* and every method of Targets / TargetsExt is an action that records its  *)
(* result.                                                                 *)
(***************************************************************************)
EmptyDeps == Dependencies(<<>>, <<>>, <<>>)

TargetsIdle ==
    /\ project_targets = [default_target |-> None, targets |-> None]
    /\ platform = None
    /\ op = "init"
    /\ resolved = <<>>
    /\ deps = EmptyDeps

EligIdle ==
    /\ package_spec = empty_spec
    /\ variant_op = "init"
    /\ eligible = FALSE

DepIdle ==
    /\ raw_specs = <<>>
    /\ variant = <<>>
    /\ subpackages = <<>>
    /\ compatibility_specs = <<>>
    /\ sources = <<>>
    /\ build_time = FALSE
    /\ dep_op = "init"
    /\ dep_result = [tag |-> "Ok", value |-> <<>>, error |-> <<>>]

EvalIdle ==
    /\ requirements = None
    /\ host_platform = None
    /\ eval_op = "init"
    /\ evaluated = [tag |-> "Ok", value |-> <<>>, error |-> <<>>]

ConvIdle ==
    /\ target_requirements = <<>>
    /\ project_model =
           [name |-> "", version |-> None,
            targets |-> Some([default_target |-> None, targets |-> None])]
    /\ conv_op = "init"
    /\ conv_calls = <<>>

SerdeIdle ==
    /\ ser_input = <<>>
    /\ ser_document = None
    /\ ser_op = "init"
    /\ ser_output = [tag |-> "Ok", value |-> <<>>, error |-> <<>>]

RecipeIdle == EvalIdle /\ ConvIdle /\ SerdeIdle

ConfigIdle ==
    /\ config_backend = ""
    /\ base_config = <<>>
    /\ target_config = <<>>
    /\ config_op = "init"
    /\ merged = [tag |-> "Ok", value |-> <<>>, error |-> <<>>]

GenIdle ==
    /\ generator = ""
    /\ gen_model = <<>>
    /\ gen_host_platform = ""
    /\ gen_op = "init"
    /\ gen_result = [tag |-> "Ok", value |-> <<>>, error |-> <<>>]

OutIdle ==
    /\ discovered_outputs = <<>>
    /\ out_done = 0
    /\ out_subpackages = <<>>
    /\ out_outputs = <<>>
    /\ out_result = [tag |-> "Ok", value |-> <<>>, error |-> <<>>]

MapIdle ==
    /\ map_cache_dir = <<>>
    /\ map_clock = 0
    /\ map_files = <<>>
    /\ map_calls = <<>>

SelIdle ==
    /\ built_outputs = <<>>
    /\ output_identifiers = <<>>
    /\ sel_op = "init"
    /\ selected_outputs = <<>>

RefIdle ==
    /\ ref_targets = [default_target |-> <<>>, targets |-> <<>>]
    /\ ref_platform = "noarch"
    /\ ref_op = "init"
    /\ ref_converted = [tag |-> "Ok", value |-> <<>>, error |-> <<>>]
    /\ ref_aggregated = [build |-> {}, host |-> {}, run |-> {}]

LogIdle ==
    /\ thread_pc = <<>>
    /\ thread_payload = <<>>
    /\ writer_lock = 0
    /\ writer_buffer = <<>>
    /\ stderr_bytes = <<>>

BackendIdle ==
    ConfigIdle /\ GenIdle /\ OutIdle /\ MapIdle /\ SelIdle /\ RefIdle /\ LogIdle

TargetsInit ==
    /\ project_targets \in TargetsV1
    /\ platform \in Options(Platforms)
    /\ op = "init"
    /\ resolved = <<>>
    /\ deps = EmptyDeps

Returns(name, refs, d) ==
    /\ op' = name
    /\ resolved' = refs
    /\ deps' = d
    /\ UNCHANGED <<project_targets, platform, eligVars, depVars, recipeVars, backendVars>>

Resolve ==
    Returns("resolve", resolve(project_targets, platform), EmptyDeps)

ExtResolve ==
    Returns("ext_resolve", ext_resolve(project_targets, platform), EmptyDeps)

RunDependencies ==
    Returns("run_dependencies", <<>>,
            Dependencies(run_dependencies(project_targets, platform), <<>>, <<>>))

HostDependencies ==
    Returns("host_dependencies", <<>>,
            Dependencies(<<>>, host_dependencies(project_targets, platform), <<>>))

BuildDependencies ==
    Returns("build_dependencies", <<>>,
            Dependencies(<<>>, <<>>, build_dependencies(project_targets, platform)))

AllDependencies ==
    Returns("dependencies", <<>>, dependencies(project_targets, platform))

ExtRunDependencies ==
    Returns("ext_run_dependencies", <<>>,
            Dependencies(ext_run_dependencies(project_targets, platform), <<>>, <<>>))

ExtHostDependencies ==
    Returns("ext_host_dependencies", <<>>,
            Dependencies(<<>>, ext_host_dependencies(project_targets, platform), <<>>))

ExtBuildDependencies ==
    Returns("ext_build_dependencies", <<>>,
            Dependencies(<<>>, <<>>, ext_build_dependencies(project_targets, platform)))

TargetsNext ==
    \/ Resolve
    \/ ExtResolve
    \/ RunDependencies
    \/ HostDependencies
    \/ BuildDependencies
    \/ AllDependencies
    \/ ExtRunDependencies
    \/ ExtHostDependencies
    \/ ExtBuildDependencies

Init == TargetsInit /\ EligIdle /\ DepIdle /\ RecipeIdle /\ BackendIdle

Next == TargetsNext

Spec == Init /\ [][Next]_vars

(***************************************************************************)
(* Properties of target resolution and requirement aggregation.            *)
(***************************************************************************)
\* The platform families, written out: which selector applies to which
\* platform.
Applies(selector, p) ==
    \/ selector = SelPlatform(p)
    \/ selector = SelLinux /\ p = "linux-64"
    \/ selector = SelUnix /\ p \in {"linux-64", "osx-arm64"}
    \/ selector = SelWin /\ p = "win-64"
    \/ selector = SelMacOs /\ p = "osx-arm64"

Occurrences(seq, x) == Cardinality({i \in 1..Len(seq) : seq[i] = x})

Position(seq, x) == CHOOSE i \in 1..Len(seq) : seq[i] = x

EntryCount == IF project_targets.targets = None THEN 0
              ELSE Len(project_targets.targets[1])

SelectorAt(i) == project_targets.targets[1][i].selector

ResolveCalled == op \in {"resolve", "ext_resolve"}

\* C1: resolve(Some(p)) returns the default target first (if present), then
\* exactly the selector-bound targets whose selector matches p, each once, in
\* the iteration order of the targets map.
C1_ResolveSomePlatform ==
    (ResolveCalled /\ platform # None) =>
        /\ Occurrences(resolved, DefaultRef)
             = (IF project_targets.default_target = None THEN 0 ELSE 1)
        /\ project_targets.default_target # None => resolved[1] = DefaultRef
        /\ \A i \in 1..EntryCount :
             Occurrences(resolved, EntryRef(i))
               = (IF Applies(SelectorAt(i), platform[1]) THEN 1 ELSE 0)
        /\ \A i, j \in 1..EntryCount :
             (/\ i < j
              /\ Applies(SelectorAt(i), platform[1])
              /\ Applies(SelectorAt(j), platform[1]))
             => Position(resolved, EntryRef(i)) < Position(resolved, EntryRef(j))
        /\ \A k \in 1..Len(resolved) :
             resolved[k] = DefaultRef \/ resolved[k].index \in 1..EntryCount

\* A call with a default target, a matching and a non-matching selector.
C1_Witness ==
    /\ ResolveCalled /\ platform # None
    /\ project_targets.default_target # None
    /\ EntryCount >= 2
    /\ \E i, j \in 1..EntryCount :
         /\ Applies(SelectorAt(i), platform[1])
         /\ ~Applies(SelectorAt(j), platform[1])
    /\ Len(resolved) >= 2

\* C2: resolve(None) returns only the default target, or nothing when there
\* is no default target; no selector-bound target is returned.
C2_ResolveNoPlatform ==
    (ResolveCalled /\ platform = None) =>
        resolved = (IF project_targets.default_target = None
                    THEN <<>> ELSE <<DefaultRef>>)

\* resolve(None) on a value that has selector-bound targets.
C2_Witness ==
    /\ ResolveCalled /\ platform = None
    /\ EntryCount >= 1
    /\ project_targets.default_target # None
    /\ resolved = <<DefaultRef>>

\* The entries the resolved targets declare for a field, in resolution order.
Declared(field) ==
    FieldEntries(project_targets, resolve(project_targets, platform), field)

FirstSeen(entries, n) ==
    CHOOSE i \in 1..Len(entries) :
        /\ entries[i].name = n
        /\ \A j \in 1..(i - 1) : entries[j].name # n

LastSeen(entries, n) ==
    CHOOSE i \in 1..Len(entries) :
        /\ entries[i].name = n
        /\ \A j \in (i + 1)..Len(entries) : entries[j].name # n

\* The map holds every declared name once, with the spec of its last
\* declaration, at the rank of its first declaration.
LastWinsFirstSeen(map, entries) ==
    /\ Keys(map) = {entries[i].name : i \in 1..Len(entries)}
    /\ Cardinality(Keys(map)) = Len(map)
    /\ \A n \in Keys(map) : Get(map, n) = entries[LastSeen(entries, n)].spec
    /\ \A n, m \in Keys(map) :
         IndexOf(map, n) < IndexOf(map, m)
           <=> FirstSeen(entries, n) < FirstSeen(entries, m)

\* C3: aggregating build, host or run dependencies over the resolved targets
\* gives each name the spec of the last applicable target declaring it, at the
\* position where the name was first seen.
C3_LastTargetWins ==
    /\ op \in {"run_dependencies", "ext_run_dependencies", "dependencies"}
         => LastWinsFirstSeen(deps.run, Declared("run_dependencies"))
    /\ op \in {"host_dependencies", "ext_host_dependencies", "dependencies"}
         => LastWinsFirstSeen(deps.host, Declared("host_dependencies"))
    /\ op \in {"build_dependencies", "ext_build_dependencies", "dependencies"}
         => LastWinsFirstSeen(deps.build, Declared("build_dependencies"))

\* Two applicable targets declare one name with different specs, and the
\* later target's first name is not the earlier target's first name.
C3_Witness ==
    /\ op = "build_dependencies"
    /\ \E i, j \in 1..Len(Declared("build_dependencies")) :
         /\ i < j
         /\ Declared("build_dependencies")[i].name = "foo"
         /\ Declared("build_dependencies")[j].name = "foo"
         /\ Declared("build_dependencies")[i].spec
              # Declared("build_dependencies")[j].spec
    /\ Len(deps.build) = 3
    /\ deps.build[1].name = "foo"
    /\ deps.build[1].spec = BinaryVersion("2.*")

(***************************************************************************)
(* Variant eligibility (PackageSpecExt::can_be_used_as_variant).           *)
(***************************************************************************)
VersionSpecs == {VersionAny, ">=1.0"}

BinaryPackageSpecs ==
    [version : Options(VersionSpecs), build : Options({"py39"}),
     build_number : Options({">=1"}), file_name : Options({"foo-1.0-0.conda"}),
     channel : Options({"https://conda.anaconda.org/conda-forge"}),
     subdir : Options({"linux-64"}), md5 : Options({"md5-digest"}),
     sha256 : Options({"sha256-digest"})]

SourcePackageSpecs == {"path", "url", "git"}

PackageSpecs ==
    {Binary(b) : b \in BinaryPackageSpecs} \cup {Source(x) : x \in SourcePackageSpecs}

can_be_used_as_variant_ignores_sha256(self) ==
    IF self.kind = "Binary"
    THEN LET b == self.binary[1]
         IN /\ b.version = Some(VersionAny)
            /\ b.build = None
            /\ b.build_number = None
            /\ b.file_name = None
            /\ b.channel = None
            /\ b.subdir = None
            /\ b.md5 = None
    ELSE FALSE

can_be_used_as_variant(self) ==
    IF self.kind = "Binary"
    THEN LET b == self.binary[1]
         IN /\ b.version = Some(VersionAny)
            /\ b.build = None
            /\ b.build_number = None
            /\ b.file_name = None
            /\ b.channel = None
            /\ b.subdir = None
            /\ b.md5 = None
            /\ b.sha256 = None
    ELSE FALSE

EligInit ==
    /\ package_spec \in PackageSpecs
    /\ variant_op = "init"
    /\ eligible = FALSE

CanBeUsedAsVariant ==
    /\ variant_op' = "can_be_used_as_variant"
    /\ eligible' = can_be_used_as_variant(package_spec)
    /\ UNCHANGED <<package_spec, targetVars, depVars, recipeVars, backendVars>>

EligNext == CanBeUsedAsVariant

EligSpecInit == EligInit /\ TargetsIdle /\ DepIdle /\ RecipeIdle /\ BackendIdle

EligSpec == EligSpecInit /\ [][EligNext]_vars

\* The fields of a Binary spec that are set.
SetFields(b) == {f \in BinaryFields : b[f] # None}

\* C4: can_be_used_as_variant is true exactly for the Binary spec whose
\* version is the match-anything version and whose other fields are all
\* unset; any single other field set, another version, no version, or a
\* Source spec gives false.
C4_VariantEligibility ==
    variant_op = "can_be_used_as_variant" =>
        /\ eligible <=> package_spec = empty_spec
        /\ package_spec.kind = "Source" => ~eligible
        /\ (package_spec.kind = "Binary"
              /\ SetFields(package_spec.binary[1]) # {"version"}) => ~eligible

\* The match-anything spec with exactly one more field set is refused.
C4_Witness ==
    /\ variant_op = "can_be_used_as_variant"
    /\ package_spec.kind = "Binary"
    /\ package_spec.binary[1].version = Some(VersionAny)
    /\ SetFields(package_spec.binary[1]) = {"version", "sha256"}
    /\ ~eligible

(***************************************************************************)
(* Dependency conversion (dependencies.rs): values.                        *)
(*                                                                         *)
(* Text that the code inspects character by character (variant values,     *)
(* version expressions) is a sequence of one-character strings.            *)
(***************************************************************************)
\* PackageName: the name as written and its normalized (lower-case) form.
PackageName(src, norm) == [source |-> src, normalized |-> norm]
as_source(name) == name.source
as_normalized(name) == name.normalized

PackageNames == {PackageName("foo", "foo"), PackageName("Bar", "bar")}

\* NormalizedKey::from(&PackageName)
NormalizedKey(name) == as_normalized(name)

\* BTreeMap::get / HashMap::get on a map modelled as a function
MapGet(map, key) == IF key \in DOMAIN map THEN Some(map[key]) ELSE None

Maps(keys, values) == UNION {[d -> values] : d \in SUBSET keys}

MatchSpecFields ==
    {"version", "build", "build_number", "file_name", "extras", "channel",
     "subdir", "namespace", "md5", "sha256", "license", "url"}

MatchSpec(name, version, build, build_number, file_name, extras, channel, subdir, namespace, md5, sha256, license, url) ==
    [name |-> name, version |-> version, build |-> build,
     build_number |-> build_number, file_name |-> file_name,
     extras |-> extras, channel |-> channel, subdir |-> subdir,
     namespace |-> namespace, md5 |-> md5, sha256 |-> sha256,
     license |-> license, url |-> url]

\* A spec with nothing but (possibly) a name
NameOnly(name) ==
    MatchSpec(name, None, None, None, None, None, None, None, None, None,
              None, None, None)

\* MatchSpec::from_nameless(spec, name)
from_nameless(spec, name) == [f \in DOMAIN spec \cup {"name"} |->
                                IF f = "name" THEN name ELSE spec[f]]

\* MatchSpec::into_nameless: the name and the spec without it
into_nameless(spec) ==
    [name |-> spec.name,
     spec |-> [f \in MatchSpecFields |-> spec[f]]]

\* Url: only the scheme is inspected
Url(scheme, rest) == [scheme |-> scheme, rest |-> rest]

\* Sample values of the fields of an enumerated MatchSpec
FieldValues(f) ==
    CASE f = "version" -> {<<">", "1">>}
      [] f = "build" -> {"py39"}
      [] f = "build_number" -> {">=1"}
      [] f = "file_name" -> {"foo-1.0-0.conda"}
      [] f = "extras" -> {"extra"}
      [] f = "channel" -> {"conda-forge"}
      [] f = "subdir" -> {"linux-64"}
      [] f = "namespace" -> {"ns"}
      [] f = "md5" -> {"md5-digest"}
      [] f = "sha256" -> {"sha256-digest"}
      [] f = "license" -> {"MIT"}
      [] f = "url" -> {Url("https", "example.com/foo.conda"),
                       Url("source", "path=../foo")}

\* Every MatchSpec with an optional name and at most MaxSetFields other
\* fields set
MatchSpecs ==
    {s \in [name : Options(PackageNames),
            version : Options(FieldValues("version")),
            build : Options(FieldValues("build")),
            build_number : Options(FieldValues("build_number")),
            file_name : Options(FieldValues("file_name")),
            extras : Options(FieldValues("extras")),
            channel : Options(FieldValues("channel")),
            subdir : Options(FieldValues("subdir")),
            namespace : Options(FieldValues("namespace")),
            md5 : Options(FieldValues("md5")),
            sha256 : Options(FieldValues("sha256")),
            license : Options(FieldValues("license")),
            url : Options(FieldValues("url"))] :
        Cardinality({f \in MatchSpecFields : s[f] # None}) <= MaxSetFields}

\* Pin (rattler_build): the pinned package and its arguments.  "invalid"
\* stands for arguments that Pin::apply rejects.
PinArgs == {"exact", "invalid"}
Pin(name, args) == [name |-> name, args |-> args]
Pins == {Pin(n, a) : n \in PackageNames, a \in PinArgs}

\* Dependency (rattler_build::recipe::parser)
DepSpec(m) == [kind |-> "Spec", spec |-> Some(m), pin |-> None]
DepPinSubpackage(pin) == [kind |-> "PinSubpackage", spec |-> None, pin |-> Some(pin)]
DepPinCompatible(pin) == [kind |-> "PinCompatible", spec |-> None, pin |-> Some(pin)]
pin_value(dep) == dep.pin[1]

\* Result<T, E>, with the panic of todo!() as a third outcome
NoError == <<>>
Ok(v) == [tag |-> "Ok", value |-> v, error |-> NoError]
Err(e) == [tag |-> "Err", value |-> <<>>, error |-> e]
Panic == [tag |-> "Panic", value |-> <<>>, error |-> NoError]

\* ConvertDependencyError / ResolveError: the variant and its fields, in
\* the order of the tuple variant
Error(enum, kind, fields) == [enum |-> enum, kind |-> kind, fields |-> fields]

(***************************************************************************)
(* Text: characters, variant values and the version-spec parser.           *)
(***************************************************************************)
AlphaNumerics == {"0", "1", "2", "3", "a", "b"}

\* char::is_alphanumeric
is_alphanumeric(c) == c \in AlphaNumerics

\* The characters of the enumerated variant values
Alphabet == {"1", ".", ">", "!"}

Texts(n) == UNION {[1..k -> Alphabet] : k \in 0..n}

\* Variable (a string variable, Variable::from_string) and its Display
Variable(text) == [kind |-> "string", text |-> text]
to_string(v) == v.text

\* The values of the variant table: every text of at most MaxValueLen
\* characters, and the two values "1.2.3" and ">=1.0,<2.0"
VariantValues ==
    {Variable(t) : t \in Texts(MaxValueLen)}
        \cup {Variable(<<"1", ".", "2", ".", "3">>),
              Variable(<<">", "=", "1", ".", "0", ",", "<", "2", ".", "0">>)}

\* NamelessMatchSpec::from_str (rattler_conda_types), for texts without
\* blanks or brackets: a comma-separated list of constraints, each "*" or an
\* optional operator followed by a version.
Operators ==
    {<<>>, <<"=">>, <<"=", "=">>, <<">">>, <<">", "=">>, <<"<">>,
     <<"<", "=">>, <<"!", "=">>}

OperatorChars == {"=", ">", "<", "!"}

ValidVersion(v) ==
    /\ Len(v) > 0
    /\ \A i \in 1..Len(v) : is_alphanumeric(v[i]) \/ v[i] = "."
    /\ is_alphanumeric(v[1])
    /\ is_alphanumeric(v[Len(v)])
    /\ \A i \in 1..(Len(v) - 1) : ~(v[i] = "." /\ v[i + 1] = ".")

\* The longest prefix of operator characters
OperatorLen(c) ==
    CHOOSE k \in 0..Len(c) :
        /\ \A i \in 1..k : c[i] \in OperatorChars
        /\ k < Len(c) => c[k + 1] \notin OperatorChars

ValidConstraint(c) ==
    \/ c = <<"*">>
    \/ /\ SubSeq(c, 1, OperatorLen(c)) \in Operators
       /\ ValidVersion(SubSeq(c, OperatorLen(c) + 1, Len(c)))

RECURSIVE SplitCommas(_)
SplitCommas(text) ==
    IF \E i \in 1..Len(text) : text[i] = ","
    THEN LET i == CHOOSE i \in 1..Len(text) :
                    /\ text[i] = ","
                    /\ \A j \in 1..(i - 1) : text[j] # ","
         IN <<SubSeq(text, 1, i - 1)>>
                \o SplitCommas(SubSeq(text, i + 1, Len(text)))
    ELSE <<text>>

ValidVersionSpec(text) ==
    \A i \in 1..Len(SplitCommas(text)) : ValidConstraint(SplitCommas(text)[i])

\* The parser's error: ParseMatchSpecError, identified by the text it was
\* given
ParseMatchSpecError(text) == [kind |-> "ParseMatchSpecError", input |-> text]

\* A NamelessMatchSpec that constrains the version only
NamelessVersion(text) ==
    [f \in MatchSpecFields |-> IF f = "version" THEN Some(text) ELSE None]

\* spec.parse::<NamelessMatchSpec>()
parse(text) ==
    IF ValidVersionSpec(text) THEN Ok(NamelessVersion(text))
    ELSE Err(ParseMatchSpecError(text))

\* Pin::apply(version, build_string) (rattler_build): the pinned MatchSpec,
\* or a PinError for arguments that cannot be applied
PinError(pin) == [kind |-> "PinError", pin |-> pin]

pin_apply(pin, version, build_string) ==
    IF pin.args = "invalid" THEN Err(PinError(pin))
    ELSE Ok([NameOnly(Some(pin.name)) EXCEPT
                !.version = Some(<<"=", "=">> \o version),
                !.build = Some(build_string)])

PackageIdentifier(version, build_string) ==
    [version |-> version, build_string |-> build_string]

PackageRecord(version, build) == [version |-> version, build |-> build]

\* SourcePackageSpecV1 decoded from a source url (EncodedSourceSpecUrl)
SourceFromUrl(url) == [kind |-> "encoded", location |-> url.rest]

from_source_url_to_source_package(source_url) ==
    IF source_url.scheme = "source" THEN Some(SourceFromUrl(source_url))
    ELSE None

(***************************************************************************)
(* Dependency conversion (dependencies.rs): functions.                     *)
(***************************************************************************)
\* Channel::base_url of a NamelessMatchSpec's channel
base_url(channel) == [base_url |-> channel]

convert_nameless_matchspec(spec) ==
    [version |-> spec.version,
     build |-> spec.build,
     build_number |-> spec.build_number,
     file_name |-> spec.file_name,
     channel |-> IF spec.channel = None THEN None
                 ELSE Some(base_url(spec.channel[1])),
     subdir |-> spec.subdir,
     md5 |-> spec.md5,
     sha256 |-> spec.sha256,
     url |-> spec.url,
     license |-> spec.license]

NamedSpecV1(name, spec) == [name |-> name, spec |-> spec]

\* Option<&PackageName>: the name when the spec has a name and nothing else
can_apply_variant(spec) ==
    IF /\ spec.name # None
       /\ spec.version = None
       /\ spec.build = None
       /\ spec.build_number = None
       /\ spec.file_name = None
       /\ spec.extras = None
       /\ spec.channel = None
       /\ spec.subdir = None
       /\ spec.namespace = None
       /\ spec.md5 = None
       /\ spec.sha256 = None
       /\ spec.license = None
       /\ spec.url = None
    THEN Some(spec.name[1])
    ELSE None

all_alphanumeric_or_dot(text) ==
    \A i \in 1..Len(text) : is_alphanumeric(text[i]) \/ text[i] = "."

version_expression_always_prefixed(text) == <<"=">> \o text

\* let mut spec = version.to_string(); if all alphanumeric or '.', "={spec}"
version_expression(text) ==
    IF all_alphanumeric_or_dot(text) THEN <<"=">> \o text ELSE text

variant_spec_parse_error_source_name(enum, name, e) ==
    Err(Error(enum, "VariantSpecParseError", <<as_source(name), e>>))

\* map_err(|e| VariantSpecParseError(name.as_normalized().to_string(), e))
variant_spec_parse_error(enum, name, e) ==
    Err(Error(enum, "VariantSpecParseError", <<as_normalized(name), e>>))

subpackage_not_found_as_missing_name(enum, name) ==
    Err(Error(enum, "MissingName", <<>>))

\* ok_or(SubpackageNotFound(name.to_owned()))
subpackage_not_found(enum, name) ==
    Err(Error(enum, "SubpackageNotFound", <<name>>))

MissingName == Err(Error("ConvertDependencyError", "MissingName", <<>>))

\* Result<Option<NamedSpecV1<BinaryPackageSpecV1>>, ConvertDependencyError>
apply_variant_and_convert(spec, variant_table) ==
    IF can_apply_variant(spec) = None THEN Ok(None)
    ELSE LET name == can_apply_variant(spec)[1]
             value == MapGet(variant_table, NormalizedKey(name))
         IN IF value = None THEN Ok(None)
            ELSE LET parsed == parse(version_expression(to_string(value[1])))
                 IN IF parsed.tag = "Err"
                    THEN variant_spec_parse_error("ConvertDependencyError",
                                                  name, parsed.error)
                    ELSE Ok(Some(NamedSpecV1(
                                as_source(name),
                                convert_nameless_matchspec(parsed.value))))

\* The tail of convert_dependency: name the spec, prefer a known source
convert_match_spec(match_spec, source_table) ==
    LET nameless == into_nameless(match_spec)
    IN IF nameless.name = None THEN MissingName
       ELSE LET name == nameless.name[1]
                source ==
                    IF MapGet(source_table, as_source(name)) # None
                    THEN MapGet(source_table, as_source(name))
                    ELSE MapGet(source_table, as_normalized(name))
            IN IF source # None
               THEN Ok(NamedSpecV1(as_source(name), Source(source[1])))
               ELSE Ok(NamedSpecV1(
                        as_source(name),
                        Binary(convert_nameless_matchspec(nameless.spec))))

\* Dependency::PinSubpackage arm of convert_dependency and
\* convert_binary_dependency: the pinned MatchSpec or the error
pin_subpackage_spec(pin, subpackage_table) ==
    LET subpackage == MapGet(subpackage_table, as_normalized(pin.name))
    IN IF subpackage = None
       THEN subpackage_not_found("ConvertDependencyError", pin.name)
       ELSE LET applied == pin_apply(pin, subpackage[1].version,
                                     subpackage[1].build_string)
            IN IF applied.tag = "Err"
               THEN Err(Error("ConvertDependencyError", "PinApplyError",
                              <<applied.error>>))
               ELSE applied

convert_dependency(dependency, variant_table, subpackage_table, source_table) ==
    CASE dependency.kind = "Spec" ->
            LET spec == dependency.spec[1]
                source_package ==
                    IF spec.url = None THEN None
                    ELSE from_source_url_to_source_package(spec.url[1])
                applied == apply_variant_and_convert(spec, variant_table)
            IN IF source_package # None
               THEN IF spec.name = None THEN MissingName
                    ELSE Ok(NamedSpecV1(as_source(spec.name[1]),
                                        Source(source_package[1])))
               ELSE IF applied.tag = "Err" THEN applied
               ELSE IF applied.value # None
               THEN Ok(NamedSpecV1(applied.value[1].name,
                                   Binary(applied.value[1].spec)))
               ELSE convert_match_spec(spec, source_table)
      [] dependency.kind = "PinSubpackage" ->
            LET pinned == pin_subpackage_spec(pin_value(dependency),
                                              subpackage_table)
            IN IF pinned.tag = "Err" THEN pinned
               ELSE convert_match_spec(pinned.value, source_table)
      [] OTHER -> Panic

\* The tail of convert_binary_dependency
convert_binary_match_spec(match_spec, variant_table) ==
    LET applied == apply_variant_and_convert(match_spec, variant_table)
        nameless == into_nameless(match_spec)
    IN IF applied.tag = "Err" THEN applied
       ELSE IF applied.value # None THEN Ok(applied.value[1])
       ELSE IF nameless.name = None THEN MissingName
       ELSE Ok(NamedSpecV1(as_source(nameless.name[1]),
                           convert_nameless_matchspec(nameless.spec)))

convert_binary_dependency(dependency, variant_table, subpackage_table) ==
    CASE dependency.kind = "Spec" ->
            LET spec == dependency.spec[1]
                applied == apply_variant_and_convert(spec, variant_table)
            IN IF applied.tag = "Err" THEN applied
               ELSE IF applied.value # None THEN Ok(applied.value[1])
               ELSE convert_binary_match_spec(spec, variant_table)
      [] dependency.kind = "PinSubpackage" ->
            LET pinned == pin_subpackage_spec(pin_value(dependency),
                                              subpackage_table)
            IN IF pinned.tag = "Err" THEN pinned
               ELSE convert_binary_match_spec(pinned.value, variant_table)
      [] OTHER -> Panic

collect_result_keeps_going(outcomes) ==
    Ok([i \in 1..Len(SelectSeq(outcomes, LAMBDA o : o.tag = "Ok")) |->
          SelectSeq(outcomes, LAMBDA o : o.tag = "Ok")[i].value])

\* Iterator::collect::<Result<Vec<_>, _>>() over the lazily mapped list:
\* the elements are converted in order up to the first one that does not
\* return Ok, whose outcome is the call's
collect_result(outcomes) ==
    IF \A i \in 1..Len(outcomes) : outcomes[i].tag = "Ok"
    THEN Ok([i \in 1..Len(outcomes) |-> outcomes[i].value])
    ELSE outcomes[CHOOSE i \in 1..Len(outcomes) :
                    /\ outcomes[i].tag # "Ok"
                    /\ \A j \in 1..(i - 1) : outcomes[j].tag = "Ok"]

convert_dependencies(dependency_list, variant_table, subpackage_table, source_table) ==
    collect_result([i \in 1..Len(dependency_list) |->
        convert_dependency(dependency_list[i], variant_table,
                           subpackage_table, source_table)])

convert_binary_dependencies(dependency_list, variant_table, subpackage_table) ==
    collect_result([i \in 1..Len(dependency_list) |->
        convert_binary_dependency(dependency_list[i], variant_table,
                                  subpackage_table)])

\* DependencyInfo (rattler_build)
VariantDependency(spec, key) ==
    [kind |-> "Variant", spec |-> spec, variant |-> key]
SourceDependency(spec) == [kind |-> "Source", spec |-> spec]
PinSubpackageDependency(spec, name, args) ==
    [kind |-> "PinSubpackage", spec |-> spec, name |-> name, args |-> args]
PinCompatibleDependency(spec, name, args) ==
    [kind |-> "PinCompatible", spec |-> spec, name |-> name, args |-> args]

\* The closure of apply_variant, for one element of raw_specs
apply_variant_one(s, variant_table, subpackage_table, compatibility_table, is_build_time) ==
    CASE s.kind = "Spec" ->
            LET m == s.spec[1]
                value == IF m.name = None THEN None
                         ELSE MapGet(variant_table, NormalizedKey(m.name[1]))
            IN IF /\ is_build_time
                  /\ m.version = None
                  /\ m.build = None
                  /\ m.name # None
                  /\ value # None
               THEN LET parsed == parse(version_expression(to_string(value[1])))
                    IN IF parsed.tag = "Err"
                       THEN variant_spec_parse_error("ResolveError", m.name[1],
                                                     parsed.error)
                       ELSE Ok(VariantDependency(
                                from_nameless(parsed.value, m.name),
                                as_normalized(m.name[1])))
               ELSE Ok(SourceDependency(m))
      [] s.kind = "PinSubpackage" ->
            LET pin == pin_value(s)
                subpackage == MapGet(subpackage_table, as_normalized(pin.name))
            IN IF subpackage = None
               THEN subpackage_not_found("ResolveError", pin.name)
               ELSE LET pinned == pin_apply(pin, subpackage[1].version,
                                            subpackage[1].build_string)
                    IN IF pinned.tag = "Err"
                       THEN Err(Error("ResolveError", "PinApplyError",
                                      <<pinned.error>>))
                       ELSE Ok(PinSubpackageDependency(
                                pinned.value, as_normalized(pin.name), pin.args))
      [] s.kind = "PinCompatible" ->
            LET pin == pin_value(s)
                pin_package == MapGet(compatibility_table, as_normalized(pin.name))
            IN IF pin_package = None
               THEN subpackage_not_found("ResolveError", pin.name)
               ELSE LET pinned == pin_apply(pin, pin_package[1].version,
                                            pin_package[1].build)
                    IN IF pinned.tag = "Err"
                       THEN Err(Error("ResolveError", "PinApplyError",
                                      <<pinned.error>>))
                       ELSE Ok(PinCompatibleDependency(
                                pinned.value, as_normalized(pin.name), pin.args))

apply_variant(specs, variant_table, subpackage_table, compatibility_table, is_build_time) ==
    collect_result([i \in 1..Len(specs) |->
        apply_variant_one(specs[i], variant_table, subpackage_table,
                          compatibility_table, is_build_time)])

(***************************************************************************)
(* Specification of dependency conversion: the inputs are drawn in DepInit *)
(* and each public entry point is an action that records its Result.       *)
(***************************************************************************)
NormalizedNames == {as_normalized(n) : n \in PackageNames}

\* Variant tables with at most one key
VariantTables ==
    {t \in Maps(NormalizedNames, VariantValues) : Cardinality(DOMAIN t) <= 1}

SubpackageTables ==
    Maps(NormalizedNames, {PackageIdentifier(<<"1", ".", "0">>, "h0")})

CompatibilityTables ==
    Maps({"bar"}, {PackageRecord(<<"2", ".", "0">>, "h1")})

SourceTables == Maps({"bar"}, {[kind |-> "path", location |-> "../bar"]})

\* One match-spec dependency of any shape against any variant table
VariantInputs ==
    /\ \E m \in MatchSpecs : raw_specs = <<DepSpec(m)>>
    /\ variant \in VariantTables
    /\ subpackages = <<>>
    /\ compatibility_specs = <<>>
    /\ sources = <<>>

PinPool ==
    {Pin(PackageName("foo", "foo"), "exact"),
     Pin(PackageName("Bar", "bar"), "exact"),
     Pin(PackageName("Bar", "bar"), "invalid")}

DependencyPool ==
    {DepSpec(NameOnly(Some(PackageName("foo", "foo")))), DepSpec(NameOnly(None))}
        \cup {DepPinSubpackage(pin) : pin \in PinPool}
        \cup {DepPinCompatible(pin) : pin \in PinPool}

\* Lists of dependencies of every kind against every table of sibling
\* outputs, package records and sources
ListInputs ==
    /\ raw_specs \in UNION {[1..n -> DependencyPool] : n \in 1..MaxDeps}
    /\ variant \in {t \in VariantTables :
                      \A k \in DOMAIN t : k = "foo" /\ to_string(t[k]) = <<"!">>}
    /\ subpackages \in SubpackageTables
    /\ compatibility_specs \in CompatibilityTables
    /\ sources \in SourceTables

DepInit ==
    /\ VariantInputs \/ ListInputs
    /\ build_time = FALSE
    /\ dep_op = "init"
    /\ dep_result = Ok(<<>>)

DepReturns(name, is_build_time, result) ==
    /\ dep_op' = name
    /\ build_time' = is_build_time
    /\ dep_result' = result
    /\ UNCHANGED <<depInputs, targetVars, eligVars, recipeVars, backendVars>>

ConvertDependencies ==
    DepReturns("convert_dependencies", FALSE,
               convert_dependencies(raw_specs, variant, subpackages, sources))

ConvertBinaryDependencies ==
    DepReturns("convert_binary_dependencies", FALSE,
               convert_binary_dependencies(raw_specs, variant, subpackages))

ApplyVariant ==
    \E is_build_time \in BOOLEAN :
        DepReturns("apply_variant", is_build_time,
                   apply_variant(raw_specs, variant, subpackages,
                                 compatibility_specs, is_build_time))

DepNext ==
    \/ ConvertDependencies
    \/ ConvertBinaryDependencies
    \/ ApplyVariant

DepSpecInit == DepInit /\ TargetsIdle /\ EligIdle /\ RecipeIdle /\ BackendIdle

DepSpecification == DepSpecInit /\ [][DepNext]_vars

(***************************************************************************)
(* Properties of variant substitution.                                     *)
(***************************************************************************)
Called == dep_op # "init"

\* The call was given exactly one match-spec dependency
SingleSpec == Len(raw_specs) = 1 /\ raw_specs[1].kind = "Spec"

TheSpec == raw_specs[1].spec[1]

\* Name set, every other field unset
Bare(m) == m.name # None /\ \A f \in MatchSpecFields : m[f] = None

\* The variant table has a value for the spec's name
HasVariant(m) == m.name # None /\ as_normalized(m.name[1]) \in DOMAIN variant

VariantText(m) == variant[as_normalized(m.name[1])].text

\* The call returned the one dependency, with this version
ReturnedVersion ==
    CASE dep_op = "apply_variant" -> dep_result.value[1].spec.version
      [] dep_op = "convert_dependencies" ->
            dep_result.value[1].spec.binary[1].version
      [] dep_op = "convert_binary_dependencies" ->
            dep_result.value[1].spec.version

ReturnedBinary ==
    dep_result.tag = "Ok"
        /\ (dep_op = "convert_dependencies"
              => dep_result.value[1].spec.kind = "Binary")

FailedWith(kind) == dep_result.tag = "Err" /\ dep_result.error.kind = kind

\* The table's value was used for the dependency: the call failed parsing
\* it, or returned a version that the spec did not have
Substituted ==
    \/ FailedWith("VariantSpecParseError")
    \/ /\ ReturnedBinary
       /\ ReturnedVersion # TheSpec.version

\* C5: a variant is substituted only for a spec with its name set and every
\* other field unset, in every path that applies variants.
C5_SubstitutionOnlyForBareSpecs ==
    (Called /\ SingleSpec /\ ~Bare(TheSpec)) => ~Substituted

\* The version expression that a variant value stands for
PlainCharacters == {"0", "1", "2", "3", "a", "b", "."}

ExpectedExpression(text) ==
    IF \A i \in 1..Len(text) : text[i] \in PlainCharacters
    THEN <<"=">> \o text
    ELSE text

\* The path substitutes for a bare dependency found in the table
Substitutes == dep_op = "apply_variant" => build_time

C10_ErrorCarriesKeyAndValue ==
    (Called /\ SingleSpec /\ FailedWith("VariantSpecParseError"))
    => /\ dep_result.error.fields[1] = as_normalized(TheSpec.name[1])
       /\ dep_result.error.fields[2].input = VariantText(TheSpec)

\* C10, amended: a VariantSpecParseError carries the variant key (the
\* normalized package name) and the parser's error for the version
\* expression built from the value, and nothing else.
C10_ErrorCarriesKeyAndParseError ==
    (Called /\ SingleSpec /\ FailedWith("VariantSpecParseError"))
    => /\ Len(dep_result.error.fields) = 2
       /\ dep_result.error.fields[1] = as_normalized(TheSpec.name[1])
       /\ dep_result.error.fields[2].kind = "ParseMatchSpecError"
       /\ dep_result.error.fields[2].input
            = ExpectedExpression(VariantText(TheSpec))

\* The value "." for Bar fails to parse as "=." and reports the key bar.
C10_Witness ==
    /\ dep_op = "convert_binary_dependencies"
    /\ SingleSpec /\ Bare(TheSpec)
    /\ as_source(TheSpec.name[1]) = "Bar"
    /\ HasVariant(TheSpec)
    /\ VariantText(TheSpec) = <<".">>
    /\ FailedWith("VariantSpecParseError")
    /\ dep_result.error.fields[1] = "bar"

(***************************************************************************)
(* Properties of pin resolution and of list conversion.                    *)
(***************************************************************************)
\* The outcome of converting the i-th element alone, in the entry point
\* that was called
Outcome(i) ==
    CASE dep_op = "convert_dependencies" ->
            convert_dependency(raw_specs[i], variant, subpackages, sources)
      [] dep_op = "convert_binary_dependencies" ->
            convert_binary_dependency(raw_specs[i], variant, subpackages)
      [] dep_op = "apply_variant" ->
            apply_variant_one(raw_specs[i], variant, subpackages,
                              compatibility_specs, build_time)

Fails(i) == Outcome(i).tag # "Ok"

\* The k-th element is a pin of this kind whose name the table lacks, and
\* every element before it converts
AbsentPinAt(k, kind, table) ==
    /\ raw_specs[k].kind = kind
    /\ as_normalized(raw_specs[k].pin[1].name) \notin DOMAIN table
    /\ \A j \in 1..(k - 1) : ~Fails(j)

\* C7: a pin_subpackage whose name is absent from the subpackage table
\* fails with SubpackageNotFound carrying that name, in convert_dependency,
\* convert_binary_dependency and apply_variant.
C7_PinSubpackageNotFound ==
    Called =>
        \A k \in 1..Len(raw_specs) :
            AbsentPinAt(k, "PinSubpackage", subpackages)
            => /\ FailedWith("SubpackageNotFound")
               /\ dep_result.error.fields = <<raw_specs[k].pin[1].name>>

\* A pin_subpackage against the empty table, after an element that converts.
C7_Witness ==
    /\ dep_op = "convert_binary_dependencies"
    /\ Len(raw_specs) = 2
    /\ AbsentPinAt(2, "PinSubpackage", subpackages)
    /\ DOMAIN subpackages = {}
    /\ FailedWith("SubpackageNotFound")
    /\ dep_result.error.fields = <<raw_specs[2].pin[1].name>>

\* C8: a pin_compatible whose name is absent from the table of package
\* records is reported as SubpackageNotFound(name) by every entry point
\* that can receive it.
C8_PinCompatibleNotFound ==
    Called =>
        \A k \in 1..Len(raw_specs) :
            AbsentPinAt(k, "PinCompatible", compatibility_specs)
            => /\ FailedWith("SubpackageNotFound")
               /\ dep_result.error.fields = <<raw_specs[k].pin[1].name>>

\* C9: converting a list ends at the first element that fails: the call's
\* result is that element's failure, with no list of converted elements;
\* a list without a failing element is converted whole.
C9_AbortsOnFirstError ==
    Called =>
        /\ \A i \in 1..Len(raw_specs) :
             (Fails(i) /\ \A j \in 1..(i - 1) : ~Fails(j))
             => /\ dep_result = Outcome(i)
                /\ dep_result.value = <<>>
        /\ (\A i \in 1..Len(raw_specs) : ~Fails(i))
             => /\ dep_result.tag = "Ok"
                /\ Len(dep_result.value) = Len(raw_specs)

\* A convertible element followed by one that fails: the call returns the
\* second element's error and not the first element's conversion.
C9_Witness ==
    /\ dep_op = "convert_dependencies"
    /\ Len(raw_specs) = 2
    /\ ~Fails(1)
    /\ raw_specs[2].kind = "PinSubpackage"
    /\ FailedWith("SubpackageNotFound")
    /\ dep_result.value = <<>>

(***************************************************************************)
(* The intermediate recipe (recipe-stage0): values, items, conditionals.   *)
(*                                                                         *)
(* The text of a match spec is a sequence of tokens (a package name, a     *)
(* version constraint, and the punctuation of ListOrItem's Display).       *)
(***************************************************************************)
MaxItems == 2       \* items of an enumerated ConditionalList
MaxThen == 2        \* elements of an enumerated then-list

\* SerializableMatchSpec(MatchSpec): the name and the version constraint
SerializableMatchSpec(name, version) == [name |-> name, version |-> version]

RecipeNames == {"make", "cmake", "ninja", "zig", "pixi"}
RecipeVersions == {">=1.0"}

Make == SerializableMatchSpec("make", None)
CMake == SerializableMatchSpec("cmake", None)
Ninja == SerializableMatchSpec("ninja", None)
Zig == SerializableMatchSpec("zig", None)
MakeVersioned == SerializableMatchSpec("make", Some(">=1.0"))

\* SerializableMatchSpec::to_string (MatchSpec's Display)
spec_to_string(spec) == <<spec.name>> \o spec.version

\* MatchSpec::from_str(s, Strict): a package name, then at most a version
recipe_parse_error(text) == [kind |-> "ParseMatchSpecError", input |-> text]

spec_from_str(text) ==
    IF /\ Len(text) \in {1, 2}
       /\ text[1] \in RecipeNames
       /\ Len(text) = 2 => text[2] \in RecipeVersions
    THEN Ok(SerializableMatchSpec(text[1], Tail(text)))
    ELSE Err(recipe_parse_error(text))

\* Value<T>
Concrete(val) == [kind |-> "Concrete", concrete |-> Some(val), template |-> None]
Template(text) == [kind |-> "Template", concrete |-> None, template |-> Some(text)]

\* Value::concrete
concrete(value) == value.concrete

\* "${{ compiler }}"
TemplateText == <<"${{", "compiler", "}}">>

\* Conditional<T>
Conditional(condition, then, else_value) ==
    [condition |-> condition, then |-> then, else_value |-> else_value]

\* Item<T>
ItemValue(value) == [kind |-> "Value", value |-> Some(value), conditional |-> None]
ItemConditional(cond) == [kind |-> "Conditional", value |-> None, conditional |-> Some(cond)]

\* ListOrItem::to_string
RECURSIVE join(_)
join(texts) ==
    IF Len(texts) = 0 THEN <<>>
    ELSE IF Len(texts) = 1 THEN texts[1]
    ELSE texts[1] \o <<",">> \o join(Tail(texts))

list_or_item_to_string(list) ==
    IF Len(list) = 0 THEN <<"[]">>
    ELSE IF Len(list) = 1 THEN spec_to_string(list[1])
    ELSE <<"[">> \o join([i \in 1..Len(list) |-> spec_to_string(list[i])]) \o <<"]">>

\* ConditionalRequirements and EvaluatedDependencies have the same four
\* fields
FourLists(build, host, run, run_constraints) ==
    [build |-> build, host |-> host, run |-> run,
     run_constraints |-> run_constraints]

\* A panic (unimplemented!, expect, unwrap) with what its message names
PanicWith(kind, detail) ==
    [tag |-> "Panic", value |-> <<>>, error |-> [kind |-> kind, detail |-> detail]]

(***************************************************************************)
(* IntermediateRecipe::dependencies: the evaluator of recipe.rs.           *)
(***************************************************************************)
\* .expect(message) on the parser's Result
expect(result, message) ==
    IF result.tag = "Ok" THEN Ok(Some(result.value))
    ELSE PanicWith("expect", message)

\* The Item::Conditional arm of the filter_map closure
evaluate_conditional(cond) ==
    IF cond.condition = "unix"
    THEN expect(spec_from_str(list_or_item_to_string(cond.then)),
                "Invalid MatchSpec in conditional")
    ELSE IF cond.else_value = None THEN Ok(None)
    ELSE expect(spec_from_str(spec_to_string(cond.else_value[1])),
                "Invalid MatchSpec in conditional else")

evaluate_item_skips_template(item) ==
    IF item.kind = "Conditional" THEN evaluate_conditional(item.conditional[1])
    ELSE IF item.value[1].kind = "Concrete" THEN Ok(item.value[1].concrete)
    ELSE Ok(None)

\* The filter_map closure: Some(spec), None, or a panic
evaluate_item(item) ==
    IF item.kind = "Conditional" THEN evaluate_conditional(item.conditional[1])
    ELSE IF item.value[1].kind = "Concrete" THEN Ok(item.value[1].concrete)
    ELSE PanicWith("unimplemented", item.value[1].template[1])

\* .filter_map(closure).collect::<Vec<_>>(): the items in order, ended by
\* the first panic
RECURSIVE filter_map_collect(_)
filter_map_collect(list) ==
    IF list = <<>> THEN Ok(<<>>)
    ELSE LET first == evaluate_item(Head(list))
         IN IF first.tag # "Ok" THEN first
            ELSE LET rest == filter_map_collect(Tail(list))
                 IN IF rest.tag # "Ok" THEN rest
                    ELSE Ok(first.value \o rest.value)

\* IntermediateRecipe::dependencies(&self, _platform)
recipe_dependencies(self_requirements, plat) ==
    IF self_requirements = None THEN Ok(None)
    ELSE LET build_list == self_requirements[1].build
             build == IF build_list = None THEN Ok(None)
                      ELSE LET collected == filter_map_collect(build_list[1])
                           IN IF collected.tag = "Ok"
                              THEN Ok(Some(collected.value))
                              ELSE collected
         IN IF build.tag # "Ok" THEN build
            ELSE Ok(Some(FourLists(build.value, None, None, None)))

(***************************************************************************)
(* ConditionalRequirements::resolve: the platform-aware evaluator that     *)
(* the generators and the Python bindings call.                            *)
(***************************************************************************)
\* The string-typed condition names
condition_matches(condition, p) ==
    CASE condition = "unix" -> is_unix(p)
      [] condition = "linux" -> is_linux(p)
      [] condition = "win" -> is_windows(p)
      [] condition = "osx" -> is_osx(p)
      [] OTHER -> condition = p

UnevaluatedTemplate(text) == [kind |-> "UnevaluatedTemplate", input |-> text]

resolve_item_else_without_platform(item, plat) ==
    IF item.kind = "Value"
    THEN IF item.value[1].kind = "Concrete" THEN Ok(item.value[1].concrete)
         ELSE Err(UnevaluatedTemplate(item.value[1].template[1]))
    ELSE IF plat = None THEN Ok(item.conditional[1].else_value)
    ELSE IF condition_matches(item.conditional[1].condition, plat[1])
         THEN Ok(item.conditional[1].then)
         ELSE Ok(item.conditional[1].else_value)

\* What one item contributes, in order
resolve_item(item, plat) ==
    IF item.kind = "Value"
    THEN IF item.value[1].kind = "Concrete" THEN Ok(item.value[1].concrete)
         ELSE Err(UnevaluatedTemplate(item.value[1].template[1]))
    ELSE IF plat = None THEN Ok(<<>>)
    ELSE IF condition_matches(item.conditional[1].condition, plat[1])
         THEN Ok(item.conditional[1].then)
         ELSE Ok(item.conditional[1].else_value)

RECURSIVE resolve_items(_, _)
resolve_items(list, plat) ==
    IF list = <<>> THEN Ok(<<>>)
    ELSE LET first == resolve_item(Head(list), plat)
         IN IF first.tag # "Ok" THEN first
            ELSE LET rest == resolve_items(Tail(list), plat)
                 IN IF rest.tag # "Ok" THEN rest
                    ELSE Ok(first.value \o rest.value)

\* resolve(list, platform): the map keyed by package name, last write wins
resolve_list(list, plat) ==
    LET contributed == resolve_items(list, plat)
    IN IF contributed.tag # "Ok" THEN contributed
       ELSE Ok(collect([i \in 1..Len(contributed.value) |->
                           Entry(contributed.value[i].name, contributed.value[i])]))

(***************************************************************************)
(* Specification of conditional evaluation.                                *)
(***************************************************************************)
Conditions == {"unix", "linux", "win-64"}

ThenPool == <<Make, CMake, Ninja, Zig>>

ThenLists == {SubSeq(ThenPool, 1, n) : n \in 0..MaxThen}

Conditionals ==
    {Conditional(c, t, e) : c \in Conditions, t \in ThenLists, e \in Options({Ninja})}

Items ==
    {ItemValue(Concrete(Make)), ItemValue(Concrete(MakeVersioned)),
     ItemValue(Template(TemplateText))}
        \cup {ItemConditional(c) : c \in Conditionals}

ItemLists == UNION {[1..n -> Items] : n \in 0..MaxItems}

ConditionalRequirementsPool ==
    {FourLists(build, host, None, None) :
        build \in Options(ItemLists),
        host \in Options({<<ItemValue(Template(TemplateText))>>})}

EvalPlatforms == {"linux-64", "win-64"}

EvalInit ==
    /\ requirements \in Options(ConditionalRequirementsPool)
    /\ host_platform \in Options(EvalPlatforms)
    /\ eval_op = "init"
    /\ evaluated = Ok(<<>>)

EvalReturns(name, result) ==
    /\ eval_op' = name
    /\ evaluated' = result
    /\ UNCHANGED <<requirements, host_platform, targetVars, eligVars, depVars,
                   convVars, serdeVars, backendVars>>

\* recipe.dependencies(platform): the platform is not optional
RecipeDependencies ==
    /\ host_platform # None
    /\ EvalReturns("dependencies", recipe_dependencies(requirements, host_platform[1]))

BuildList ==
    IF requirements = None \/ requirements[1].build = None THEN <<>>
    ELSE requirements[1].build[1]

RequirementsResolve ==
    EvalReturns("resolve", resolve_list(BuildList, host_platform))

EvalNext ==
    \/ RecipeDependencies
    \/ RequirementsResolve

EvalSpecInit ==
    EvalInit /\ TargetsIdle /\ EligIdle /\ DepIdle /\ ConvIdle /\ SerdeIdle
        /\ BackendIdle

EvalSpec == EvalSpecInit /\ [][EvalNext]_vars

(***************************************************************************)
(* Properties of conditional evaluation.                                   *)
(***************************************************************************)
\* The selector predicates of target resolution, for a condition name
SelectorHolds(condition, p) ==
    CASE condition = "unix" -> matches(SelUnix, p)
      [] condition = "linux" -> matches(SelLinux, p)
      [] condition = "win" -> matches(SelWin, p)
      [] condition = "osx" -> matches(SelMacOs, p)
      [] OTHER -> matches(SelPlatform(condition), p)

DependenciesCalled == eval_op = "dependencies"

\* The build list holds one item, a conditional
SingleConditional ==
    /\ Len(BuildList) = 1
    /\ BuildList[1].kind = "Conditional"

TheConditional == BuildList[1].conditional[1]

\* The evaluator returned a build list, and it is list
BuildIs(list) ==
    /\ evaluated.tag = "Ok"
    /\ evaluated.value # None
    /\ evaluated.value[1].build = Some(list)

\* C11: a build list holding the single conditional (if c, then t, else e)
\* evaluates to exactly t when c matches the platform handed to the
\* evaluator, under the selector predicates of target resolution, and to
\* exactly e (nothing when e is absent) otherwise.
C11_ConditionalUsesPlatform ==
    (DependenciesCalled /\ SingleConditional /\ Len(TheConditional.then) = 1)
    => BuildIs(IF SelectorHolds(TheConditional.condition, host_platform[1])
               THEN TheConditional.then
               ELSE TheConditional.else_value)

\* C12: when the condition of a conditional is true (for the platform, and
\* for the evaluator), every element of its then-list is contributed as a
\* dependency of its own, whatever the length of the then-list.
C12_ThenListContributed ==
    (/\ DependenciesCalled
     /\ SingleConditional
     /\ TheConditional.condition = "unix"
     /\ SelectorHolds(TheConditional.condition, host_platform[1])
     /\ Len(TheConditional.then) >= 1)
    => BuildIs(TheConditional.then)

\* The concrete values of the unconditional items, in order
RECURSIVE ConcreteSpecs(_)
ConcreteSpecs(list) ==
    IF list = <<>> THEN <<>>
    ELSE (IF Head(list).kind = "Value" THEN Head(list).value[1].concrete ELSE <<>>)
             \o ConcreteSpecs(Tail(list))

HasTemplate(list) ==
    \E i \in 1..Len(list) :
        list[i].kind = "Value" /\ list[i].value[1].kind = "Template"

ByName(specs) == collect([i \in 1..Len(specs) |-> Entry(specs[i].name, specs[i])])

\* C13: resolved with platform = None, a requirement list contributes its
\* unconditional concrete items only: the result is the one of the list
\* without its conditionals, and no conditional makes the call fail.
C13_NoPlatformSkipsConditionals ==
    (eval_op = "resolve" /\ host_platform = None)
    => /\ evaluated.tag = "Ok" => evaluated.value = ByName(ConcreteSpecs(BuildList))
       /\ evaluated.tag # "Ok" => HasTemplate(BuildList)

\* A concrete item and a conditional with an else-branch, no platform:
\* the concrete item alone is returned.
C13_Witness ==
    /\ eval_op = "resolve"
    /\ host_platform = None
    /\ Len(BuildList) = 2
    /\ BuildList[1].kind = "Conditional"
    /\ BuildList[1].conditional[1].else_value # None
    /\ BuildList[1].conditional[1].then # <<>>
    /\ BuildList[2] = ItemValue(Concrete(Make))
    /\ evaluated = Ok(<<Entry("make", Make)>>)

\* The evaluator reaches item k: no item before it makes it panic
Reaches(k) == \A j \in 1..(k - 1) : evaluate_item(BuildList[j]).tag = "Ok"

C15_OneEntryPerName ==
    (DependenciesCalled /\ evaluated.tag = "Ok" /\ evaluated.value # None
        /\ evaluated.value[1].build # None)
    => LET result == evaluated.value[1].build[1]
       IN \A i, j \in 1..Len(result) :
              result[i].name = result[j].name => i = j

(***************************************************************************)
(* Conversion of a project model's targets into conditional requirements:  *)
(* recipe.rs (into_target_requirements, into_conditional_requirements).    *)
(***************************************************************************)
\* Target
TargetDefault == [kind |-> "Default", condition |-> ""]
TargetSpecific(condition) == [kind |-> "Specific", condition |-> condition]

\* TargetSelectorV1's Display
selector_to_string(selector) ==
    CASE selector.kind = "Platform" -> selector.name
      [] selector.kind = "Linux" -> "linux"
      [] selector.kind = "Unix" -> "unix"
      [] selector.kind = "Win" -> "win"
      [] selector.kind = "MacOs" -> "macos"

\* Option::unwrap on None, Result::unwrap on Err
UnwrapNone == PanicWith("unwrap", "called Option::unwrap() on a None value")
UnwrapErr(e) == PanicWith("unwrap", e)

into_conditional_list(target, values) ==
    IF target.kind = "Default"
    THEN Ok([i \in 1..Len(values) |-> ItemValue(values[i])])
    ELSE IF \E i \in 1..Len(values) : concrete(values[i]) = None
         THEN UnwrapNone
         ELSE Ok(<<ItemConditional(
                      Conditional(target.condition,
                                  [i \in 1..Len(values) |-> concrete(values[i])[1]],
                                  None))>>)

\* if let Some(deps) = field { items.extend(into_conditional_list(..)) }
extend(items, target, field) ==
    IF items.tag # "Ok" \/ field = None THEN items
    ELSE LET list == into_conditional_list(target, field[1])
         IN IF list.tag # "Ok" THEN list ELSE Ok(items.value \o list.value)

\* The body of the loop, for one entry of the map
process_target(lists, target, reqs) ==
    FourLists(extend(lists.build, target, reqs.build),
              extend(lists.host, target, reqs.host),
              extend(lists.run, target, reqs.run),
              extend(lists.run_constraints, target, reqs.run_constraints))

\* for (target, requirements) in self.target, the entries taken in order
RECURSIVE process_targets(_, _, _)
process_targets(lists, self_target, order) ==
    IF order = <<>> THEN lists
    ELSE process_targets(process_target(lists, Head(order), self_target[Head(order)]),
                         self_target, Tail(order))

\* if items.is_empty() { None } else { Some(items) }
none_if_empty(items) == IF items = <<>> THEN None ELSE Some(items)

FieldNames == {"build", "host", "run", "run_constraints"}

\* TargetRequirements::into_conditional_requirements, the HashMap iterated
\* in order
into_conditional_requirements(self_target, order) ==
    LET start == FourLists(Ok(<<>>), Ok(<<>>), Ok(<<>>), Ok(<<>>))
        lists == process_targets(start, self_target, order)
    IN IF \E f \in FieldNames : lists[f].tag # "Ok"
       THEN UnwrapNone
       ELSE Ok([f \in FieldNames |-> none_if_empty(lists[f].value)])

\* The orders in which a HashMap of these keys can be iterated
IterationOrders(keys) ==
    {order \in [1..Cardinality(keys) -> keys] :
        \A i, j \in 1..Cardinality(keys) : order[i] = order[j] => i = j}

\* package_specs_to_match_spec of recipe.rs: the name parsed as a match
\* spec, the binary spec itself dropped
RECURSIVE package_specs_to_match_spec(_)
package_specs_to_match_spec(specs) ==
    IF specs = <<>> THEN Ok(<<>>)
    ELSE LET unwrap(parsed) ==
                 IF parsed.tag = "Ok" THEN Ok(<<parsed.value>>)
                 ELSE UnwrapErr(parsed.error)
             push(first, rest) ==
                 IF first.tag # "Ok" THEN first
                 ELSE IF rest.tag # "Ok" THEN rest
                 ELSE Ok(first.value \o rest.value)
         IN push(IF Head(specs).spec.kind = "Source"
                 THEN PanicWith("unimplemented", Head(specs).spec.source[1])
                 ELSE unwrap(spec_from_str(<<Head(specs).name>>)),
                 package_specs_to_match_spec(Tail(specs)))

\* One field of target_spec_to_requirements
field_to_requirements(field) ==
    IF field = None THEN Ok(None)
    ELSE LET values(specs) ==
                 IF specs.tag # "Ok" THEN specs
                 ELSE Ok(Some([i \in 1..Len(specs.value) |-> Concrete(specs.value[i])]))
         IN values(package_specs_to_match_spec(field[1]))

target_spec_to_requirements(target) ==
    LET requirements_of(build, host, run) ==
            IF build.tag # "Ok" THEN build
            ELSE IF host.tag # "Ok" THEN host
            ELSE IF run.tag # "Ok" THEN run
            ELSE Ok(FourLists(build.value, host.value, run.value, None))
    IN requirements_of(field_to_requirements(target.build_dependencies),
                       field_to_requirements(target.host_dependencies),
                       field_to_requirements(target.run_dependencies))

\* The keys into_target_requirements inserts, and the target of each
TargetKeys(self) ==
    (IF self.default_target = None THEN {} ELSE {TargetDefault})
        \cup {TargetSpecific(selector_to_string(Flatten(self.targets)[i].selector)) :
                i \in 1..Len(Flatten(self.targets))}

TargetOf(self, key) ==
    IF key.kind = "Default" THEN self.default_target[1]
    ELSE LET map == self.targets[1]
         IN map[CHOOSE i \in 1..Len(map) :
                    selector_to_string(map[i].selector) = key.condition].target

\* into_target_requirements: the default target, then the specific ones
into_target_requirements(self) ==
    LET inserted(converted, order) ==
            LET failed == {i \in 1..Len(order) : converted[order[i]].tag # "Ok"}
            IN IF failed # {}
               THEN converted[order[CHOOSE i \in failed : \A j \in failed : i <= j]]
               ELSE Ok([key \in DOMAIN converted |-> converted[key].value])
    IN inserted([key \in TargetKeys(self) |->
                    target_spec_to_requirements(TargetOf(self, key))],
                (IF self.default_target = None THEN <<>> ELSE <<TargetDefault>>)
                  \o [i \in 1..Len(Flatten(self.targets)) |->
                        TargetSpecific(selector_to_string(self.targets[1][i].selector))])

(***************************************************************************)
(* specs_conversion.rs and GeneratedRecipe::from_model.                    *)
(***************************************************************************)
\* PackageDependency
DependencyBinary(spec) == [kind |-> "Binary", spec |-> spec, location |-> None]
DependencySource(spec, location) ==
    [kind |-> "Source", spec |-> spec, location |-> Some(location)]

\* PackageDependency::package_name
package_name(dependency) == dependency.spec.name

\* PackageName::from_str
package_name_from_str(name) ==
    IF name \in RecipeNames THEN Ok(name)
    ELSE Err([kind |-> "InvalidPackageNameError", input |-> <<name>>])

\* IntoDiagnostic::into_diagnostic: the error wrapped in a miette::Report
into_diagnostic(result) ==
    IF result.tag = "Ok" THEN result
    ELSE Err([kind |-> "Report", input |-> result.error])

source_package_spec_to_package_dependency(name, source_spec) ==
    Ok(DependencySource(SerializableMatchSpec(name, None), Url("source", source_spec)))

\* The closure of package_specs_to_package_dependency
package_spec_to_package_dependency(name, spec) ==
    IF spec.kind = "Binary"
    THEN LET parsed == into_diagnostic(spec_from_str(<<name>>))
         IN IF parsed.tag = "Ok" THEN Ok(DependencyBinary(parsed.value)) ELSE parsed
    ELSE LET parsed == into_diagnostic(package_name_from_str(name))
         IN IF parsed.tag = "Ok"
            THEN source_package_spec_to_package_dependency(parsed.value, spec.source[1])
            ELSE parsed

\* .map(closure).collect::<miette::Result<Vec<_>>>()
RECURSIVE package_specs_to_package_dependency(_)
package_specs_to_package_dependency(specs) ==
    IF specs = <<>> THEN Ok(<<>>)
    ELSE LET first == package_spec_to_package_dependency(Head(specs).name, Head(specs).spec)
         IN IF first.tag # "Ok" THEN first
            ELSE LET rest == package_specs_to_package_dependency(Tail(specs))
                 IN IF rest.tag # "Ok" THEN rest
                    ELSE Ok(<<first.value>> \o rest.value)

\* .map(|deps| package_specs_to_package_dependency(deps).unwrap())
\* .unwrap_or_default(), then inserted by package name
field_to_package_spec(field) ==
    IF field = None THEN Ok(<<>>)
    ELSE LET unwrap(reqs) ==
                 IF reqs.tag # "Ok" THEN UnwrapErr(reqs.error)
                 ELSE Ok(collect([i \in 1..Len(reqs.value) |->
                                     Entry(package_name(reqs.value[i]), reqs.value[i])]))
         IN unwrap(package_specs_to_package_dependency(field[1]))

target_to_package_spec(target) ==
    LET requirements_of(build, host, run) ==
            IF build.tag # "Ok" THEN build
            ELSE IF host.tag # "Ok" THEN host
            ELSE IF run.tag # "Ok" THEN run
            ELSE Ok(FourLists(build.value, host.value, run.value, <<>>))
    IN requirements_of(field_to_package_spec(target.build_dependencies),
                       field_to_package_spec(target.host_dependencies),
                       field_to_package_spec(target.run_dependencies))

\* The items one target adds to each list: values for the default target,
\* one conditional per dependency for a specific target
target_items(target, selector) ==
    LET item(dependency) ==
            IF selector = None THEN ItemValue(Concrete(dependency))
            ELSE ItemConditional(
                     Conditional(selector_to_string(selector[1]), <<dependency>>, <<>>))
        items(map) == [i \in 1..Len(map) |-> item(map[i].spec)]
        added(package_requirements) ==
            IF package_requirements.tag # "Ok" THEN package_requirements
            ELSE Ok(FourLists(items(package_requirements.value.build),
                              items(package_requirements.value.host),
                              items(package_requirements.value.run),
                              <<>>))
    IN added(target_to_package_spec(target))

RECURSIVE extend_all(_, _)
extend_all(lists, added) ==
    IF added = <<>> THEN Ok(lists)
    ELSE IF Head(added).tag # "Ok" THEN Head(added)
    ELSE extend_all([f \in FieldNames |-> lists[f] \o Head(added).value[f]],
                    Tail(added))

from_targets_v1_to_conditional_requirements(self) ==
    LET specific == Flatten(self.targets)
    IN extend_all(FourLists(<<>>, <<>>, <<>>, <<>>),
                  [i \in 1..Len(self.default_target) |->
                      target_items(self.default_target[i], None)]
                    \o [i \in 1..Len(specific) |->
                          target_items(specific[i].target, Some(specific[i].selector))])

\* About, with the default metadata provider: the fields of the model
AboutFields ==
    {"homepage", "license", "license_file", "summary", "description",
     "documentation", "repository"}

\* GeneratedRecipe::from_model(model, &mut DefaultMetadataProvider)
generated_recipe_from_model(model) ==
    IF model.name = "" THEN Err([kind |-> "NoNameDefined", input |-> <<>>])
    ELSE IF model.version = None THEN Err([kind |-> "NoVersionDefined", input |-> <<>>])
    ELSE LET recipe(reqs) ==
                 IF reqs.tag # "Ok" THEN reqs
                 ELSE Ok([package |-> [name |-> Concrete(model.name),
                                       version |-> Concrete(model.version[1])],
                          requirements |-> reqs.value,
                          about |-> Some([f \in AboutFields |-> None]),
                          metadata_input_globs |-> {},
                          build_input_globs |-> {}])
         IN recipe(from_targets_v1_to_conditional_requirements(
                       IF model.targets = None
                       THEN [default_target |-> None, targets |-> None]
                       ELSE model.targets[1]))

(***************************************************************************)
(* Specification of the conversions.  An input is either a project model   *)
(* or a TargetRequirements value; into_conditional_requirements may be     *)
(* called a second time on an equal value.                                 *)
(***************************************************************************)
ConvPlain ==
    TargetV1(Some(<<Entry("make", empty_spec), Entry("cmake", BinaryVersion(">=1.0"))>>),
             Some(<<Entry("make", empty_spec)>>),
             None)

ConvEmpty ==
    TargetV1(Some(<<>>), None, Some(<<Entry("ninja", empty_spec)>>))

ConvInvalid ==
    TargetV1(Some(<<Entry("make", empty_spec), Entry("in$valid", empty_spec)>>),
             None, None)

ConvSource ==
    TargetV1(None, Some(<<Entry("zig", Source("path"))>>), None)

ConvTargetPool == {ConvPlain, ConvEmpty, ConvInvalid, ConvSource}

ConvSelectors == {SelUnix, SelWin, SelPlatform("linux-64")}

ConvSelectorMaps ==
    UNION {{m \in [1..n -> [selector : ConvSelectors, target : ConvTargetPool]] :
              \A i, j \in 1..n : i # j => m[i].selector # m[j].selector}
           : n \in 0..MaxTargets}

ConvTargetsV1 ==
    [default_target : Options(ConvTargetPool), targets : Options(ConvSelectorMaps)]

ProjectModels ==
    [name : {"", "pkg"}, version : Options({"1.0"}), targets : Options(ConvTargetsV1)]

EmptyModel ==
    [name |-> "", version |-> None,
     targets |-> Some([default_target |-> None, targets |-> None])]

\* Vec<Value<SerializableMatchSpec>>
ValueLists ==
    {[i \in 1..n |-> Concrete(ThenPool[i])] : n \in 0..MaxThen}
        \cup {<<Template(TemplateText)>>}

RequirementsPool ==
    {FourLists(build, host, None, None) :
        build \in Options(ValueLists), host \in Options({<<Concrete(Ninja)>>})}

TargetPoolKeys == {TargetDefault, TargetSpecific("unix"), TargetSpecific("win")}

TargetRequirementsPool ==
    UNION {[keys -> RequirementsPool] : keys \in SUBSET TargetPoolKeys}

ConvInit ==
    /\ \/ project_model \in ProjectModels /\ target_requirements = <<>>
       \/ project_model = EmptyModel /\ target_requirements \in TargetRequirementsPool
    /\ conv_op = "init"
    /\ conv_calls = <<>>

ConvReturns(name, outcome) ==
    /\ conv_op' = name
    /\ conv_calls' = Append(conv_calls, outcome)
    /\ UNCHANGED <<target_requirements, project_model, targetVars, eligVars,
                   depVars, evalVars, serdeVars, backendVars>>

ModelTargets ==
    IF project_model.targets = None THEN [default_target |-> None, targets |-> None]
    ELSE project_model.targets[1]

\* into_target_requirements(&model.targets.unwrap_or_default())
IntoTargetRequirements ==
    /\ conv_op = "init"
    /\ ConvReturns("into_target_requirements", into_target_requirements(ModelTargets))

\* target_requirements.into_conditional_requirements(): the first call, or
\* the second one on an equal value
IntoConditionalRequirements ==
    /\ conv_op \in {"init", "into_conditional_requirements"}
    /\ Len(conv_calls) < 2
    /\ \E order \in IterationOrders(DOMAIN target_requirements) :
           ConvReturns("into_conditional_requirements",
                       into_conditional_requirements(target_requirements, order))

FromTargetsV1ToConditionalRequirements ==
    /\ conv_op = "init"
    /\ ConvReturns("from_targets_v1_to_conditional_requirements",
                   from_targets_v1_to_conditional_requirements(ModelTargets))

GeneratedRecipeFromModel ==
    /\ conv_op = "init"
    /\ ConvReturns("from_model", generated_recipe_from_model(project_model))

ConvNext ==
    \/ IntoTargetRequirements
    \/ IntoConditionalRequirements
    \/ FromTargetsV1ToConditionalRequirements
    \/ GeneratedRecipeFromModel

ConvSpecInit ==
    ConvInit /\ TargetsIdle /\ EligIdle /\ DepIdle /\ EvalIdle /\ SerdeIdle
        /\ BackendIdle

ConvSpec == ConvSpecInit /\ [][ConvNext]_vars

(***************************************************************************)
(* Properties of the conversions.                                          *)
(***************************************************************************)
\* The items of the requirements a conversion returned, all four lists
\* (into_conditional_requirements returns each list as an Option)
ProducedItems(outcome) ==
    LET reqs == IF conv_op = "from_model" THEN outcome.value.requirements
                ELSE outcome.value
        list(f) == IF conv_op = "into_conditional_requirements"
                   THEN Flatten(reqs[f]) ELSE reqs[f]
    IN list("build") \o list("host") \o list("run") \o list("run_constraints")

ProducesRequirements ==
    conv_op \in {"into_conditional_requirements",
                 "from_targets_v1_to_conditional_requirements", "from_model"}

\* C16: every Conditional the conversion functions produce has a then-list
\* of at least one element.
C16_ThenListNotEmpty ==
    ProducesRequirements =>
        \A c \in 1..Len(conv_calls) :
            conv_calls[c].tag = "Ok" =>
                \A i \in 1..Len(ProducedItems(conv_calls[c])) :
                    LET item == ProducedItems(conv_calls[c])[i]
                    IN item.kind = "Conditional"
                       => Len(item.conditional[1].then) >= 1

\* C19: two calls of into_conditional_requirements on equal
\* TargetRequirements return equal requirements: the same items in the
\* same order in each of the four lists.
C19_ConversionDeterministic ==
    (conv_op = "into_conditional_requirements" /\ Len(conv_calls) = 2)
    => conv_calls[1] = conv_calls[2]

\* A dependency of the model's targets whose name is not a package name
InvalidNameIn(target) ==
    \E field \in {target.build_dependencies, target.host_dependencies,
                  target.run_dependencies} :
        \E i \in 1..Len(Flatten(field)) :
            package_name_from_str(Flatten(field)[i].name).tag = "Err"

HasInvalidName ==
    \/ \E i \in 1..Len(ModelTargets.default_target) :
           InvalidNameIn(ModelTargets.default_target[i])
    \/ \E i \in 1..Len(Flatten(ModelTargets.targets)) :
           InvalidNameIn(Flatten(ModelTargets.targets)[i].target)

\* C20: when a dependency of the model's targets has a name that fails
\* package-name validation, the conversion of the targets returns an
\* error to its caller: it neither returns requirements nor panics.
C20_InvalidNameIsTypedError ==
    (/\ conv_op \in {"from_targets_v1_to_conditional_requirements", "from_model"}
     /\ HasInvalidName)
    => conv_calls[1].tag = "Err"

(***************************************************************************)
(* Serialization (serde): a value is written as a document of scalars,     *)
(* sequences and mappings, and read back from one.  T is "String" or       *)
(* "SerializableMatchSpec".                                                *)
(***************************************************************************)
DocNull == [doc |-> "Null", str |-> <<>>, seq |-> <<>>, map |-> <<>>]
DocStr(text) == [doc |-> "Str", str |-> text, seq |-> <<>>, map |-> <<>>]
DocSeq(docs) == [doc |-> "Seq", str |-> <<>>, seq |-> docs, map |-> <<>>]
DocMap(fields) == [doc |-> "Map", str |-> <<>>, seq |-> <<>>, map |-> fields]

\* serde::de::Error (invalid type, custom, no variant matched)
DeError(message) == [kind |-> "de::Error", input |-> message]

\* T::serialize
serialize_t(T, val) ==
    IF T = "String" THEN DocStr(val) ELSE DocStr(spec_to_string(val))

\* T::deserialize: String::deserialize, then (for a match spec)
\* MatchSpec::from_str(.., Strict).map_err(custom)
deserialize_t(T, document) ==
    IF document.doc # "Str" THEN Err(DeError("invalid type"))
    ELSE IF T = "String" THEN Ok(document.str)
    ELSE LET map_err(parsed) ==
                 IF parsed.tag = "Ok" THEN parsed ELSE Err(DeError("custom"))
         IN map_err(spec_from_str(document.str))

\* #[serde(untagged)] enum Value<T>
serialize_value(T, value) ==
    IF value.kind = "Concrete" THEN serialize_t(T, value.concrete[1])
    ELSE DocStr(value.template[1])

deserialize_value(T, document) ==
    LET first_match(as_concrete, as_template) ==
            IF as_concrete.tag = "Ok" THEN Ok(Concrete(as_concrete.value))
            ELSE IF as_template.tag = "Ok" THEN Ok(Template(as_template.value))
            ELSE Err(DeError("data did not match any variant of untagged enum Value"))
    IN first_match(deserialize_t(T, document), deserialize_t("String", document))

\* impl Serialize for ListOrItem<T>
serialize_list_or_item(T, list) ==
    IF Len(list) = 1 THEN serialize_t(T, list[1])
    ELSE DocSeq([i \in 1..Len(list) |-> serialize_t(T, list[i])])

\* The elements of a sequence, each read as T: the first error ends it
RECURSIVE deserialize_elements(_, _)
deserialize_elements(T, docs) ==
    IF docs = <<>> THEN Ok(<<>>)
    ELSE LET push(first, rest) ==
                 IF first.tag # "Ok" THEN first
                 ELSE IF rest.tag # "Ok" THEN rest
                 ELSE Ok(<<first.value>> \o rest.value)
         IN push(deserialize_t(T, Head(docs)), deserialize_elements(T, Tail(docs)))

deserialize_list_or_item_sequences_only(T, document) ==
    IF document.doc = "Seq" THEN deserialize_elements(T, document.seq)
    ELSE Err(DeError("invalid type"))

\* impl Deserialize for ListOrItem<T>: visit_seq, visit_str / visit_string,
\* visit_map; any other document is an invalid type
deserialize_list_or_item(T, document) ==
    IF document.doc = "Seq" THEN deserialize_elements(T, document.seq)
    ELSE IF document.doc \in {"Str", "Map"}
    THEN LET single(item) == IF item.tag = "Ok" THEN Ok(<<item.value>>) ELSE item
         IN single(deserialize_t(T, document))
    ELSE Err(DeError("invalid type"))

\* Option<T>
serialize_option(T, option) ==
    IF option = None THEN DocNull ELSE serialize_t(T, option[1])

deserialize_option(T, document) ==
    IF document.doc = "Null" THEN Ok(None)
    ELSE LET some(item) == IF item.tag = "Ok" THEN Ok(Some(item.value)) ELSE item
         IN some(deserialize_t(T, document))

\* #[derive(Serialize, Deserialize)] struct Conditional<T>, fields "if",
\* "then" and "else"
ConditionalKeys == {"if", "then", "else"}

serialize_conditional(T, cond) ==
    DocMap([key \in ConditionalKeys |->
               CASE key = "if" -> DocStr(<<cond.condition>>)
                 [] key = "then" -> serialize_list_or_item(T, cond.then)
                 [] key = "else" -> serialize_option(T, cond.else_value)])

\* A condition is a text of one token; a missing "else" is None
deserialize_conditional(T, document) ==
    IF document.doc # "Map" THEN Err(DeError("invalid type"))
    ELSE IF ~({"if", "then"} \subseteq DOMAIN document.map)
    THEN Err(DeError("missing field"))
    ELSE LET fields(condition, then, else_value) ==
                 IF condition.tag # "Ok" THEN condition
                 ELSE IF then.tag # "Ok" THEN then
                 ELSE IF else_value.tag # "Ok" THEN else_value
                 ELSE Ok(Conditional(condition.value[1], then.value, else_value.value))
         IN fields(deserialize_t("String", document.map["if"]),
                   deserialize_list_or_item(T, document.map["then"]),
                   IF "else" \in DOMAIN document.map
                   THEN deserialize_option(T, document.map["else"])
                   ELSE Ok(None))

\* #[serde(untagged)] enum Item<T>
serialize_item(T, item) ==
    IF item.kind = "Value" THEN serialize_value(T, item.value[1])
    ELSE serialize_conditional(T, item.conditional[1])

deserialize_item(T, document) ==
    LET first_match(as_value, as_conditional) ==
            IF as_value.tag = "Ok" THEN Ok(ItemValue(as_value.value))
            ELSE IF as_conditional.tag = "Ok"
            THEN Ok(ItemConditional(as_conditional.value))
            ELSE Err(DeError("data did not match any variant of untagged enum Item"))
    IN first_match(deserialize_value(T, document), deserialize_conditional(T, document))

\* Option<ConditionalList<SerializableMatchSpec>>
serialize_conditional_list(option) ==
    IF option = None THEN DocNull
    ELSE DocSeq([i \in 1..Len(option[1]) |->
                    serialize_item("SerializableMatchSpec", option[1][i])])

RECURSIVE deserialize_items(_)
deserialize_items(docs) ==
    IF docs = <<>> THEN Ok(<<>>)
    ELSE LET push(first, rest) ==
                 IF first.tag # "Ok" THEN first
                 ELSE IF rest.tag # "Ok" THEN rest
                 ELSE Ok(<<first.value>> \o rest.value)
         IN push(deserialize_item("SerializableMatchSpec", Head(docs)),
                 deserialize_items(Tail(docs)))

deserialize_conditional_list(document) ==
    IF document.doc = "Null" THEN Ok(None)
    ELSE IF document.doc # "Seq" THEN Err(DeError("invalid type"))
    ELSE LET some(items) == IF items.tag = "Ok" THEN Ok(Some(items.value)) ELSE items
         IN some(deserialize_items(document.seq))

\* #[derive(Serialize, Deserialize)] struct ConditionalRequirements
serialize_requirements(reqs) ==
    DocMap([f \in FieldNames |-> serialize_conditional_list(reqs[f])])

\* A missing field is None; the fields are read in the order of the struct
deserialize_requirements(document) ==
    IF document.doc # "Map" THEN Err(DeError("invalid type"))
    ELSE LET fields(lists) ==
                 IF lists.build.tag # "Ok" THEN lists.build
                 ELSE IF lists.host.tag # "Ok" THEN lists.host
                 ELSE IF lists.run.tag # "Ok" THEN lists.run
                 ELSE IF lists.run_constraints.tag # "Ok" THEN lists.run_constraints
                 ELSE Ok([f \in FieldNames |-> lists[f].value])
         IN fields([f \in FieldNames |->
                       IF f \in DOMAIN document.map
                       THEN deserialize_conditional_list(document.map[f])
                       ELSE Ok(None)])

\* serde_yaml::to_string / from_str of a value of the given type
Typed(type, of, val) == [type |-> type, of |-> of, value |-> val]

serialize(input) ==
    IF input.type = "Value" THEN serialize_value(input.of, input.value)
    ELSE serialize_requirements(input.value)

deserialize(input, document) ==
    IF input.type = "Value" THEN deserialize_value(input.of, document)
    ELSE deserialize_requirements(document)

(***************************************************************************)
(* Specification of serialization: a value is serialized and the document  *)
(* is read back as a value of the same type.                               *)
(***************************************************************************)
StringValues ==
    {Concrete(<<"pkg">>), Concrete(TemplateText), Template(TemplateText)}

MatchSpecValues ==
    {Concrete(Make), Concrete(MakeVersioned), Template(TemplateText)}

RequirementsInputs ==
    {Typed("ConditionalRequirements", "SerializableMatchSpec",
           FourLists(build, None, None, None)) : build \in Options(ItemLists)}

StringInputs == {Typed("Value", "String", v) : v \in StringValues}

MatchSpecInputs == {Typed("Value", "SerializableMatchSpec", v) : v \in MatchSpecValues}

SerdeInit ==
    /\ \/ ser_input \in RequirementsInputs /\ ser_document = None
       \/ ser_input \in StringInputs /\ ser_document = None
       \/ ser_input \in MatchSpecInputs /\ ser_document = None
    /\ ser_op = "init"
    /\ ser_output = Ok(<<>>)

Serialize ==
    /\ ser_op = "init"
    /\ ser_document = None
    /\ ser_op' = "serialize"
    /\ ser_document' = Some(serialize(ser_input))
    /\ UNCHANGED <<ser_input, ser_output, targetVars, eligVars, depVars,
                   evalVars, convVars, backendVars>>

Deserialize ==
    /\ ser_op # "deserialize"
    /\ ser_document # None
    /\ ser_op' = "deserialize"
    /\ ser_output' = deserialize(ser_input, ser_document[1])
    /\ UNCHANGED <<ser_input, ser_document, targetVars, eligVars, depVars,
                   evalVars, convVars, backendVars>>

SerdeNext ==
    \/ Serialize
    \/ Deserialize

SerdeSpecInit ==
    SerdeInit /\ TargetsIdle /\ EligIdle /\ DepIdle /\ EvalIdle /\ ConvIdle
        /\ BackendIdle

SerdeSpec == SerdeSpecInit /\ [][SerdeNext]_vars

(***************************************************************************)
(* Properties of serialization.                                            *)
(***************************************************************************)
\* The value was serialized and the document read back
RoundTrip(type) ==
    /\ ser_op = "deserialize"
    /\ ser_input.type = type

InputItems == Flatten(ser_input.value.build)

\* The document of the i-th item of the build list
ItemDocument(i) == ser_document[1].map.build.seq[i]

\* C17: a ConditionalRequirements with a Conditional, serialized and read
\* back, has at the same place a Conditional with the same condition, the
\* same then-list in the same order and the same else value, whether the
\* then-list has one element (written as a bare scalar) or several.
C17_ConditionalRoundTrip ==
    RoundTrip("ConditionalRequirements") =>
        \A i \in 1..Len(InputItems) :
            InputItems[i].kind = "Conditional"
            => /\ Len(InputItems[i].conditional[1].then) = 1
                    => ItemDocument(i).map["then"].doc = "Str"
               /\ ser_output.tag = "Ok"
               /\ Len(Flatten(ser_output.value.build)) = Len(InputItems)
               /\ Flatten(ser_output.value.build)[i].kind = "Conditional"
               /\ Flatten(ser_output.value.build)[i].conditional = InputItems[i].conditional

\* Two conditionals, of a one-element and of a two-element then-list, the
\* first with an else value: written as a scalar and as a sequence, and
\* both read back as they were.
C17_Witness ==
    /\ RoundTrip("ConditionalRequirements")
    /\ Len(InputItems) = 2
    /\ InputItems[1] = ItemConditional(Conditional("unix", <<Make>>, Some(Ninja)))
    /\ InputItems[2] = ItemConditional(Conditional("unix", <<Make, CMake>>, None))
    /\ ItemDocument(1).map["then"] = DocStr(<<"make">>)
    /\ ItemDocument(2).map["then"].doc = "Seq"
    /\ ser_output = Ok(ser_input.value)

ContainsInterpolation(text) == \E i \in 1..Len(text) : text[i] = "${{"

\* C18: a scalar is read as Value::Template exactly when it contains
\* interpolation syntax, and as Value::Concrete otherwise; so a serialized
\* Template is read back as a Template and a serialized Concrete as a
\* Concrete.
C18_TemplateByInterpolation ==
    RoundTrip("Value")
    => /\ ser_output.tag = "Ok"
       /\ ser_output.value.kind = "Template"
            <=> ContainsInterpolation(ser_document[1].str)
       /\ ser_output.value.kind = ser_input.value.kind

(***************************************************************************)
(* Backend configuration: BackendConfig::merge_with_target_config of the   *)
(* rattler-build, R and Python backends (config.rs of each crate).  A      *)
(* PathBuf or String is a string, a Vec a sequence, an IndexMap a sequence *)
(* of entries.                                                             *)
(***************************************************************************)
RattlerBuildBackendConfig(debug_dir, extra_input_globs, experimental) ==
    [debug_dir |-> debug_dir, extra_input_globs |-> extra_input_globs,
     experimental |-> experimental]

RBackendConfig(extra_args, env, debug_dir, extra_input_globs, compilers, channels) ==
    [extra_args |-> extra_args, env |-> env, debug_dir |-> debug_dir,
     extra_input_globs |-> extra_input_globs, compilers |-> compilers,
     channels |-> channels]

PythonBackendConfig(noarch, env, debug_dir, extra_input_globs) ==
    [noarch |-> noarch, env |-> env, debug_dir |-> debug_dir,
     extra_input_globs |-> extra_input_globs]

\* miette::bail!(message)
bail(message) == Err([kind |-> "miette", message |-> message])

\* Option::or / Option::or_else
option_or(option, other) == IF option # None THEN option ELSE other

\* IndexMap::extend: each entry of the other map is inserted in turn
RECURSIVE extend_map(_, _)
extend_map(map, other) ==
    IF other = <<>> THEN map
    ELSE extend_map(insert(map, Head(other)), Tail(other))

\* if target.is_empty() { base.clone() } else { target.clone() }
replace_if_set(base, target) == IF target = <<>> THEN base ELSE target

rattler_build_merge_with_target_config(self, target) ==
    IF target.debug_dir # None
    THEN bail("debug_dir cannot have a target specific value")
    ELSE Ok(RattlerBuildBackendConfig(
                self.debug_dir,
                replace_if_set(self.extra_input_globs, target.extra_input_globs),
                self.experimental \/ target.experimental))

r_merge_with_target_config(self, target) ==
    IF target.debug_dir # None
    THEN bail("debug_dir cannot have a target specific value")
    ELSE Ok(RBackendConfig(
                replace_if_set(self.extra_args, target.extra_args),
                extend_map(self.env, target.env),
                self.debug_dir,
                replace_if_set(self.extra_input_globs, target.extra_input_globs),
                option_or(target.compilers, self.compilers),
                option_or(target.channels, self.channels)))

python_merge_allows_debug_dir(self, target) ==
    Ok(PythonBackendConfig(
           option_or(target.noarch, self.noarch),
           extend_map(self.env, target.env),
           option_or(target.debug_dir, self.debug_dir),
           replace_if_set(self.extra_input_globs, target.extra_input_globs)))

python_merge_with_target_config(self, target) ==
    IF target.debug_dir # None
    THEN bail("debug_dir cannot have a target specific value")
    ELSE Ok(PythonBackendConfig(
                option_or(target.noarch, self.noarch),
                extend_map(self.env, target.env),
                option_or(target.debug_dir, self.debug_dir),
                replace_if_set(self.extra_input_globs, target.extra_input_globs)))

\* The implementation of the trait method for each backend
merge_with_target_config(backend, self, target) ==
    IF backend = "rattler-build" THEN rattler_build_merge_with_target_config(self, target)
    ELSE IF backend = "r" THEN r_merge_with_target_config(self, target)
    ELSE python_merge_with_target_config(self, target)

(***************************************************************************)
(* Specification of the merge: a base and a target configuration of one    *)
(* backend, then the merge.                                                *)
(***************************************************************************)
DebugDirs == {None, Some("/base/debug"), Some("/target/debug")}
Globs == {<<>>, <<"*.base">>, <<"*.target">>}
Envs ==
    {<<>>,
     <<Entry("BASE_VAR", "base_value"), Entry("SHARED_VAR", "base_shared")>>,
     <<Entry("TARGET_VAR", "target_value"), Entry("SHARED_VAR", "target_shared")>>}
OptionalLists == {None, Some(<<"c">>), Some(<<"cxx">>)}

RattlerBuildConfigs ==
    {RattlerBuildBackendConfig(d, g, e) : d \in DebugDirs, g \in Globs, e \in BOOLEAN}

RConfigs ==
    {RBackendConfig(a, e, d, g, c, ch) :
        a \in {<<>>, <<"--no-multiarch">>}, e \in Envs,
        d \in {None, Some("/target/debug")}, g \in {<<>>, <<"*.target">>},
        c \in OptionalLists, ch \in {None, Some(<<"conda-forge">>)}}

PythonConfigs ==
    {PythonBackendConfig(n, e, d, g) :
        n \in {None, Some(TRUE), Some(FALSE)}, e \in Envs, d \in DebugDirs, g \in Globs}

ConfigsOf(backend) ==
    IF backend = "rattler-build" THEN RattlerBuildConfigs
    ELSE IF backend = "r" THEN RConfigs
    ELSE PythonConfigs

Backends == {"rattler-build", "r", "python"}

ConfigInit ==
    /\ config_backend \in Backends
    /\ base_config \in ConfigsOf(config_backend)
    /\ target_config \in ConfigsOf(config_backend)
    /\ config_op = "init"
    /\ merged = [tag |-> "Ok", value |-> <<>>, error |-> <<>>]

MergeWithTargetConfig ==
    /\ config_op = "init"
    /\ config_op' = "merge_with_target_config"
    /\ merged' = merge_with_target_config(config_backend, base_config, target_config)
    /\ UNCHANGED <<config_backend, base_config, target_config, targetVars, eligVars,
                   depVars, recipeVars, genVars, outVars, mapVars, selVars,
                   refVars, logVars>>

ConfigNext == MergeWithTargetConfig

ConfigSpecInit ==
    ConfigInit /\ TargetsIdle /\ EligIdle /\ DepIdle /\ RecipeIdle /\ GenIdle
        /\ OutIdle /\ MapIdle /\ SelIdle /\ RefIdle /\ LogIdle

ConfigSpec == ConfigSpecInit /\ [][ConfigNext]_vars

Merged == config_op = "merge_with_target_config"

EnvHas(env, entry) == \E i \in 1..Len(env) : env[i] = entry

\* C22: for the Python configuration the merge succeeds and every field the
\* target sets has the target's value in the merged configuration,
\* debug_dir included.
C22_PythonTargetOverrides ==
    (Merged /\ config_backend = "python")
    => /\ merged.tag = "Ok"
       /\ target_config.noarch # None => merged.value.noarch = target_config.noarch
       /\ \A i \in 1..Len(target_config.env) :
              EnvHas(merged.value.env, target_config.env[i])
       /\ target_config.debug_dir # None
              => merged.value.debug_dir = target_config.debug_dir
       /\ target_config.extra_input_globs # <<>>
              => merged.value.extra_input_globs = target_config.extra_input_globs

(***************************************************************************)
(* The shape of what TargetRequirements::into_conditional_requirements     *)
(* returns (ConvSpec).                                                     *)
(***************************************************************************)
IsValueItem(item) == item.kind = "Value"

\* The dependencies of one kind the default target declares
DefaultDependencies(field) ==
    IF TargetDefault \in DOMAIN target_requirements
    THEN Flatten(target_requirements[TargetDefault][field])
    ELSE <<>>

\* The specific targets that declare dependencies of one kind
DeclaringTargets(field) ==
    {key \in DOMAIN target_requirements :
        key.kind = "Specific" /\ target_requirements[key][field] # None}

ConditionalsFor(list, key) ==
    {i \in 1..Len(list) :
        /\ list[i].kind = "Conditional"
        /\ list[i].conditional[1].condition = key.condition}

\* C23: into_conditional_requirements maps every dependency of the default
\* target to its own unconditional item and the dependencies of each
\* specific target to one conditional item keyed by the target's selector:
\* each of build, host and run holds one unconditional item per default
\* dependency and one conditional item per specific target that declares
\* dependencies of that kind.
C23_ItemsPerTarget ==
    conv_op = "into_conditional_requirements"
    => \A c \in 1..Len(conv_calls) :
           /\ conv_calls[c].tag = "Ok"
           /\ \A field \in {"build", "host", "run"} :
                  LET list == Flatten(conv_calls[c].value[field])
                  IN /\ SelectSeq(list, IsValueItem)
                          = [i \in 1..Len(DefaultDependencies(field)) |->
                                ItemValue(DefaultDependencies(field)[i])]
                     /\ \A key \in DeclaringTargets(field) :
                            Cardinality(ConditionalsFor(list, key)) = 1
                     /\ Len(list) = Len(DefaultDependencies(field))
                                      + Cardinality(DeclaringTargets(field))

(***************************************************************************)
(* Recipe generators: ZigGenerator::generate_recipe and                    *)
(* PixiGenerator::generate_recipe.  Both build the recipe from the model,  *)
(* resolve its requirements for the host platform and add their tool to    *)
(* the build requirements when the resolved build requirements lack it.    *)
(***************************************************************************)
\* ConditionalRequirements::resolve over PackageDependency items: the map
\* keyed by package name of what the items contribute for the platform
resolve_dependencies(list, plat) ==
    LET keyed(contributed) ==
            IF contributed.tag # "Ok" THEN contributed
            ELSE Ok(collect([i \in 1..Len(contributed.value) |->
                                Entry(package_name(contributed.value[i]),
                                      contributed.value[i])]))
    IN keyed(resolve_items(list, plat))

\* requirements.build.push(PackageDependency::Binary(tool).into())
push_tool(recipe, tool) ==
    [recipe EXCEPT !.requirements.build =
        Append(@, ItemValue(Concrete(DependencyBinary(tool))))]

\* generated_recipe.recipe.build.script = Script { content, env, .. }
with_script(recipe, tool, config) ==
    [package |-> recipe.package,
     requirements |-> recipe.requirements,
     about |-> recipe.about,
     metadata_input_globs |-> recipe.metadata_input_globs,
     build_input_globs |-> recipe.build_input_globs,
     script |-> [content |-> <<tool, "build script">>, env |-> config.env]]

generate_recipe_always_adds(tool, model, config, plat) ==
    LET add(generated, parsed) ==
            IF generated.tag # "Ok" THEN generated
            ELSE IF parsed.tag # "Ok" THEN parsed
            ELSE Ok(with_script(push_tool(generated.value, parsed.value), tool, config))
    IN add(into_diagnostic(generated_recipe_from_model(model)),
           into_diagnostic(spec_from_str(<<tool>>)))

generate_recipe(tool, model, config, plat) ==
    LET add(generated, parsed) ==
            IF generated.tag # "Ok" THEN generated
            ELSE LET decide(build) ==
                         IF build.tag # "Ok" THEN build
                         ELSE IF tool \in Keys(build.value)
                         THEN Ok(with_script(generated.value, tool, config))
                         ELSE IF parsed.tag # "Ok" THEN parsed
                         ELSE Ok(with_script(push_tool(generated.value, parsed.value),
                                             tool, config))
                 IN decide(resolve_dependencies(generated.value.requirements.build,
                                                Some(plat)))
    IN add(into_diagnostic(generated_recipe_from_model(model)),
           into_diagnostic(spec_from_str(<<tool>>)))

(***************************************************************************)
(* Specification of the generators.                                        *)
(***************************************************************************)
GenTargetPool ==
    {TargetV1(Some(<<Entry("zig", empty_spec)>>), None, None),
     TargetV1(Some(<<Entry("make", empty_spec), Entry("pixi", empty_spec)>>), None, None),
     TargetV1(None, Some(<<Entry("zig", empty_spec)>>), Some(<<Entry("pixi", empty_spec)>>)),
     ConvPlain}

GenSelectorMaps ==
    UNION {{m \in [1..n -> [selector : ConvSelectors, target : GenTargetPool]] :
              \A i, j \in 1..n : i # j => m[i].selector # m[j].selector}
           : n \in 0..MaxTargets}

GenModels ==
    [name : {"", "pkg"}, version : {Some("1.0")},
     targets : {Some(t) : t \in [default_target : Options(GenTargetPool),
                                 targets : {Some(m) : m \in GenSelectorMaps}]}]

GenConfig == [env |-> <<>>]

GenInit ==
    /\ generator \in {"zig", "pixi"}
    /\ gen_model \in GenModels
    /\ gen_host_platform \in Platforms
    /\ gen_op = "init"
    /\ gen_result = [tag |-> "Ok", value |-> <<>>, error |-> <<>>]

GenerateRecipe ==
    /\ gen_op = "init"
    /\ gen_op' = "generate_recipe"
    /\ gen_result' = generate_recipe(generator, gen_model, GenConfig, gen_host_platform)
    /\ UNCHANGED <<generator, gen_model, gen_host_platform, targetVars, eligVars,
                   depVars, recipeVars, configVars, outVars, mapVars, selVars,
                   refVars, logVars>>

GenNext == GenerateRecipe

GenSpecInit ==
    GenInit /\ TargetsIdle /\ EligIdle /\ DepIdle /\ RecipeIdle /\ ConfigIdle
        /\ OutIdle /\ MapIdle /\ SelIdle /\ RefIdle /\ LogIdle

GenSpec == GenSpecInit /\ [][GenNext]_vars

Generated == gen_op = "generate_recipe" /\ gen_result.tag = "Ok"

\* The build requirements of a recipe resolved for the host platform
ResolvedBuild(recipe) ==
    resolve_dependencies(recipe.requirements.build, Some(gen_host_platform)).value

ModelRecipe == generated_recipe_from_model(gen_model).value

ToolItem == ItemValue(Concrete(DependencyBinary(SerializableMatchSpec(generator, None))))

\* C24: after a generator has produced a recipe for a host platform, the
\* build requirements resolved for that platform hold the generator's tool
\* package exactly once: the tool is appended when the model's resolved
\* build dependencies lack it, and nothing is added when they hold it.
C24_ToolExactlyOnce ==
    Generated
    => /\ Cardinality({i \in 1..Len(ResolvedBuild(gen_result.value)) :
                          ResolvedBuild(gen_result.value)[i].name = generator}) = 1
       /\ generator \notin Keys(ResolvedBuild(ModelRecipe))
              => gen_result.value.requirements.build
                     = Append(ModelRecipe.requirements.build, ToolItem)
       /\ generator \in Keys(ResolvedBuild(ModelRecipe))
              => gen_result.value.requirements.build = ModelRecipe.requirements.build

\* The model declares zig only for Windows and the host is linux-64: zig is
\* appended as an unconditional item after the conditional one.
C24_Witness ==
    /\ Generated
    /\ generator = "zig"
    /\ gen_host_platform = "linux-64"
    /\ gen_model.targets[1].default_target = None
    /\ Len(gen_model.targets[1].targets[1]) = 1
    /\ gen_model.targets[1].targets[1][1].selector = SelWin
    /\ Len(gen_result.value.requirements.build) = 2
    /\ gen_result.value.requirements.build[1].kind = "Conditional"
    /\ gen_result.value.requirements.build[2] = ToolItem

(***************************************************************************)
(* conda_outputs of the rattler-build backend: the loop over the           *)
(* discovered outputs, which fills the subpackage table as it goes and     *)
(* converts each output's requirements against the table as it is then.    *)
(***************************************************************************)
MaxOutputs == 3     \* discovered outputs of an enumerated recipe

\* What Recipe::from_node gives for a discovered output: the recipe, or
\* the parse errors
Recipe(name, skip, reqs) ==
    Ok([name |-> name, version |-> <<"1", ".", "0">>, skip |-> skip,
        requirements |-> reqs])

ParseErrors == Err(Error("ParsingError", "ParseErrors", <<>>))

DiscoveredOutput(name, recipe) == [name |-> name, recipe |-> recipe]

\* sources: every discovered output, from the current source
output_sources(discovered) ==
    [name \in {discovered[i].name : i \in 1..Len(discovered)} |->
        [kind |-> "path", location |-> "."]]

\* HashMap::insert
map_insert(map, key, val) ==
    [k \in DOMAIN map \cup {key} |-> IF k = key THEN val ELSE map[k]]

\* The conversions of one output's requirements, in the order of the
\* struct literal; the first error returns
convert_requirements(reqs, subpackage_table, source_table) ==
    collect_result(
        <<convert_dependencies(reqs.build, <<>>, subpackage_table, source_table),
          convert_dependencies(reqs.host, <<>>, subpackage_table, source_table),
          convert_dependencies(reqs.run, <<>>, subpackage_table, source_table),
          convert_binary_dependencies(reqs.run_constraints, <<>>,
                                      subpackage_table)>>)

CondaOutput(recipe, depends) ==
    [name |-> recipe.name, version |-> recipe.version, build |-> "h0",
     build_dependencies |-> depends[1], host_dependencies |-> depends[2],
     run_dependencies |-> depends[3], run_constraints |-> depends[4]]

table_without_insert(table, recipe) == table

\* subpackages.insert(name, PackageIdentifier { name, version, build_string })
table_after_insert(table, recipe) ==
    map_insert(table, as_normalized(recipe.name),
               PackageIdentifier(recipe.version, "h0"))

(***************************************************************************)
(* Specification of conda_outputs: one step per iteration of the loop.     *)
(***************************************************************************)
Running == [tag |-> "Running", value |-> <<>>, error |-> NoError]

OutputRequirements(host, run) ==
    [build |-> <<>>, host |-> host, run |-> run, run_constraints |-> <<>>]

RequirementsOfOutputs ==
    {OutputRequirements(<<>>, <<>>),
     OutputRequirements(<<>>, <<DepPinSubpackage(Pin(PackageName("foo", "foo"), "exact"))>>),
     OutputRequirements(<<>>, <<DepPinSubpackage(Pin(PackageName("Bar", "bar"), "exact"))>>),
     OutputRequirements(<<DepPinSubpackage(Pin(PackageName("Bar", "bar"), "invalid"))>>,
                        <<>>)}

DiscoveredOutputs ==
    {DiscoveredOutput(as_source(n), Recipe(n, FALSE, r)) :
        n \in PackageNames, r \in RequirementsOfOutputs}
      \cup {DiscoveredOutput(as_source(n), Recipe(n, TRUE, OutputRequirements(<<>>, <<>>))) :
              n \in PackageNames}
      \cup {DiscoveredOutput("foo", ParseErrors)}

OutInit ==
    /\ discovered_outputs \in UNION {[1..n -> DiscoveredOutputs] : n \in 1..MaxOutputs}
    /\ out_done = 0
    /\ out_subpackages = <<>>
    /\ out_outputs = <<>>
    /\ out_result = Running

OutUnchanged ==
    UNCHANGED <<targetVars, eligVars, depVars, recipeVars, configVars, genVars, mapVars,
                selVars, refVars, logVars>>

\* One iteration of `for discovered_output in discovered_outputs`
ProcessOutput ==
    /\ out_result = Running
    /\ out_done < Len(discovered_outputs)
    /\ out_done' = out_done + 1
    /\ LET recipe == discovered_outputs[out_done + 1].recipe
           table == table_after_insert(out_subpackages, recipe.value)
           converted(depends) ==
               IF depends.tag # "Ok"
               THEN /\ out_result' = depends
                    /\ out_outputs' = out_outputs
               ELSE /\ out_result' = out_result
                    /\ out_outputs' = Append(out_outputs,
                                             CondaOutput(recipe.value, depends.value))
       IN IF recipe.tag # "Ok"
          THEN /\ out_result' = recipe
               /\ UNCHANGED <<out_subpackages, out_outputs>>
          ELSE IF recipe.value.skip
          THEN UNCHANGED <<out_subpackages, out_outputs, out_result>>
          ELSE /\ out_subpackages' = table
               /\ converted(convert_requirements(recipe.value.requirements, table,
                                                 output_sources(discovered_outputs)))
    /\ UNCHANGED discovered_outputs
    /\ OutUnchanged

\* Ok(CondaOutputsResult { outputs, .. })
ReturnOutputs ==
    /\ out_result = Running
    /\ out_done = Len(discovered_outputs)
    /\ out_result' = Ok(out_outputs)
    /\ UNCHANGED <<discovered_outputs, out_done, out_subpackages, out_outputs>>
    /\ OutUnchanged

OutNext == ProcessOutput \/ ReturnOutputs

OutSpecInit ==
    OutInit /\ TargetsIdle /\ EligIdle /\ DepIdle /\ RecipeIdle /\ ConfigIdle /\ GenIdle
        /\ MapIdle /\ SelIdle /\ RefIdle /\ LogIdle

OutSpec == OutSpecInit /\ [][OutNext]_vars

\* The names of the non-skipped outputs among the first n discovered ones
FinalizedNames(n) ==
    {as_normalized(discovered_outputs[i].recipe.value.name) :
        i \in {j \in 1..n : /\ discovered_outputs[j].recipe.tag = "Ok"
                            /\ ~discovered_outputs[j].recipe.value.skip}}

\* The output the loop took last, when it was converted
Converted ==
    /\ out_done >= 1
    /\ discovered_outputs[out_done].recipe.tag = "Ok"
    /\ ~discovered_outputs[out_done].recipe.value.skip

LastRequirements == discovered_outputs[out_done].recipe.value.requirements

\* The pins of the output taken last (it has at most one)
LastPins ==
    {pin_value(d) : d \in {LastRequirements.host[i] : i \in 1..Len(LastRequirements.host)}
                            \cup {LastRequirements.run[i] : i \in 1..Len(LastRequirements.run)}}

NotFound(pin) == subpackage_not_found("ConvertDependencyError", pin.name)

CACHE_TTL == 2      \* 24 hours, in units of twelve hours
MaxCalls == 3       \* get_mapping calls of a run
MaxClock == CACHE_TTL + 2

PyPiPackageLookup(pypi_name, conda_versions) ==
    [format_version |-> "1", channel |-> "conda-forge",
     pypi_name |-> pypi_name, conda_versions |-> conda_versions]

\* serde_json::to_string and serde_json::from_str of a PyPiPackageLookup:
\* the object as its members in declaration order, and back
lookup_to_string(lookup) ==
    <<<<"format_version", lookup.format_version>>, <<"channel", lookup.channel>>,
      <<"pypi_name", lookup.pypi_name>>, <<"conda_versions", lookup.conda_versions>>>>

member(content, key) ==
    LET at == {i \in 1..Len(content) : content[i][1] = key}
    IN IF at = {} THEN None ELSE Some(content[CHOOSE i \in at : TRUE][2])

lookup_from_str(content) ==
    IF \E key \in {"format_version", "channel", "pypi_name", "conda_versions"} :
           member(content, key) = None
    THEN None
    ELSE Some([format_version |-> member(content, "format_version")[1],
               channel |-> member(content, "channel")[1],
               pypi_name |-> member(content, "pypi_name")[1],
               conda_versions |-> member(content, "conda_versions")[1]])

\* cache_path: None without a cache directory
cache_path(cache_dir, normalized_name) ==
    IF cache_dir = None THEN None ELSE Some(normalized_name)

is_cache_valid_up_to_ttl(files, path, now) ==
    /\ path \in DOMAIN files
    /\ now >= files[path].modified
    /\ now - files[path].modified <= CACHE_TTL

\* elapsed < CACHE_TTL, false when the file or its age cannot be read
is_cache_valid(files, path, now) ==
    /\ path \in DOMAIN files
    /\ now >= files[path].modified
    /\ now - files[path].modified < CACHE_TTL

read_from_cache(cache_dir, files, normalized_name, now) ==
    LET path == cache_path(cache_dir, normalized_name)
    IN IF path = None THEN None
       ELSE IF ~(path[1] \in DOMAIN files) \/ ~is_cache_valid(files, path[1], now)
       THEN None
       ELSE lookup_from_str(files[path[1]].content)

write_to_cache(cache_dir, files, normalized_name, lookup, now) ==
    LET path == cache_path(cache_dir, normalized_name)
    IN IF path = None THEN files
       ELSE [p \in DOMAIN files \cup {path[1]} |->
                IF p = path[1]
                THEN [content |-> lookup_to_string(lookup), modified |-> now]
                ELSE files[p]]

FetchError(pypi_name) == Err(Error("MappingError", "FetchError", <<pypi_name>>))

\* What fetch_from_api can return: a lookup, Ok(None) for 404, or an error
ApiResponses(pypi_name) ==
    {Ok(Some(PyPiPackageLookup(pypi_name, v))) : v \in {<<"old">>, <<"old", "new">>}}
        \cup {Ok(None), FetchError(pypi_name)}

\* One get_mapping call: its time, its result, whether it asked the API
Call(pypi_name, now, result, api) ==
    [name |-> pypi_name, at |-> now, result |-> result, api |-> api]

PyPiNames == {"numpy", "requests"}

MapInit ==
    /\ map_cache_dir \in {None, Some("cache")}
    /\ map_clock = 0
    /\ map_files = <<>>
    /\ map_calls = <<>>

MapUnchanged ==
    UNCHANGED <<targetVars, eligVars, depVars, recipeVars, configVars, genVars, outVars,
                selVars, refVars, logVars>>

\* get_mapping(pypi_name), with the answer the API would give
GetMapping ==
    /\ Len(map_calls) < MaxCalls
    /\ \E pypi_name \in PyPiNames : \E response \in ApiResponses(pypi_name) :
         LET cached == read_from_cache(map_cache_dir, map_files, pypi_name, map_clock)
         IN IF cached # None
            THEN /\ map_calls' = Append(map_calls,
                                        Call(pypi_name, map_clock, Ok(cached), FALSE))
                 /\ map_files' = map_files
            ELSE /\ map_calls' = Append(map_calls,
                                        Call(pypi_name, map_clock, response, TRUE))
                 /\ map_files' =
                        IF response.tag = "Ok" /\ response.value # None
                        THEN write_to_cache(map_cache_dir, map_files, pypi_name,
                                            response.value[1], map_clock)
                        ELSE map_files
    /\ UNCHANGED <<map_cache_dir, map_clock>>
    /\ MapUnchanged

\* Time passes
Tick ==
    /\ map_clock < MaxClock
    /\ map_clock' = map_clock + 1
    /\ UNCHANGED <<map_cache_dir, map_files, map_calls>>
    /\ MapUnchanged

MapNext == GetMapping \/ Tick

MapSpecInit ==
    MapInit /\ TargetsIdle /\ EligIdle /\ DepIdle /\ RecipeIdle /\ ConfigIdle /\ GenIdle
        /\ OutIdle /\ SelIdle /\ RefIdle /\ LogIdle

MapSpec == MapSpecInit /\ [][MapNext]_vars

\* Call i obtained a mapping from the API
Obtained(i) ==
    /\ map_calls[i].api
    /\ map_calls[i].result.tag = "Ok"
    /\ map_calls[i].result.value # None

\* Call i is the last call before call j that obtained a mapping for the
\* package of call j from the API
LastObtained(i, j) ==
    /\ i < j
    /\ map_calls[i].name = map_calls[j].name
    /\ Obtained(i)
    /\ \A k \in (i + 1)..(j - 1) :
           ~(map_calls[k].name = map_calls[j].name /\ Obtained(k))

Age(i, j) == map_calls[j].at - map_calls[i].at

CachedAgain(i, j) ==
    /\ ~map_calls[j].api
    /\ map_calls[j].result = map_calls[i].result

MaxIdentifiers == 2     \* identifiers of an enumerated request

\* An output of the recipe; id is its place in the Vec the recipe gave
BuiltOutput(id, name, version, build_string, target_platform) ==
    [id |-> id, name |-> name, version |-> version,
     build_string |-> build_string, target_platform |-> target_platform]

CondaOutputIdentifier(name, version, build, subdir) ==
    [name |-> name, version |-> version, build |-> build, subdir |-> subdir]

is_none_or(option, f(_)) == option = None \/ f(option[1])

\* The closure given to position()
identifies(iden, output) ==
    /\ is_none_or(iden.name, LAMBDA n : as_normalized(output.name) = n)
    /\ is_none_or(iden.version, LAMBDA v : output.version = v)
    /\ is_none_or(iden.build, LAMBDA b : output.build_string = b)
    /\ is_none_or(iden.subdir, LAMBDA s : output.target_platform = s)

\* Iterator::position: the first index, as an Option
position(list, f(_)) ==
    LET found == {i \in 1..Len(list) : f(list[i])}
    IN IF found = {} THEN None
       ELSE Some(CHOOSE i \in found : \A j \in found : i <= j)

keep_at(list, pos) == list

\* Vec::remove: the list without the element at pos
remove_at(list, pos) ==
    [i \in 1..(Len(list) - 1) |-> IF i < pos THEN list[i] ELSE list[i + 1]]

\* output_identifiers.into_iter().filter_map(..).collect() over the
\* outputs that are left
RECURSIVE select_outputs(_, _)
select_outputs(identifiers, remaining) ==
    IF identifiers = <<>> THEN <<>>
    ELSE LET taken(pos) ==
                 IF pos = None THEN select_outputs(Tail(identifiers), remaining)
                 ELSE <<remaining[pos[1]]>>
                          \o select_outputs(Tail(identifiers),
                                            remove_at(remaining, pos[1]))
         IN taken(position(remaining, LAMBDA o : identifies(Head(identifiers), o)))

\* if let Some(output_identifiers) = params.outputs { .. } else { outputs }
outputs_to_build(identifiers, all_outputs) ==
    IF identifiers = None THEN all_outputs
    ELSE select_outputs(identifiers[1], all_outputs)

OutputShapes ==
    {[name |-> n, build_string |-> b] : n \in PackageNames, b \in {"h0", "h1"}}

OutputLists ==
    {[i \in 1..Len(shapes) |->
        BuiltOutput(i, shapes[i].name, "1.0", shapes[i].build_string, "linux-64")] :
        shapes \in UNION {[1..n -> OutputShapes] : n \in 1..MaxOutputs}}

IdentifierPool ==
    {CondaOutputIdentifier(None, None, None, None),
     CondaOutputIdentifier(Some("foo"), None, None, None),
     CondaOutputIdentifier(Some("bar"), Some("1.0"), None, None),
     CondaOutputIdentifier(Some("foo"), None, Some("h1"), Some("linux-64")),
     CondaOutputIdentifier(None, Some("2.0"), None, None),
     CondaOutputIdentifier(None, None, None, Some("noarch"))}

SelInit ==
    /\ built_outputs \in OutputLists
    /\ output_identifiers \in
           {None} \cup {Some(l) : l \in UNION {[1..n -> IdentifierPool] :
                                                 n \in 0..MaxIdentifiers}}
    /\ sel_op = "init"
    /\ selected_outputs = <<>>

\* conda_build up to the choice of the outputs to build
CondaBuild ==
    /\ sel_op = "init"
    /\ sel_op' = "conda_build"
    /\ selected_outputs' = outputs_to_build(output_identifiers, built_outputs)
    /\ UNCHANGED <<built_outputs, output_identifiers>>
    /\ UNCHANGED <<targetVars, eligVars, depVars, recipeVars, configVars, genVars, outVars,
                   mapVars, refVars, logVars>>

SelNext == CondaBuild

SelSpecInit ==
    SelInit /\ TargetsIdle /\ EligIdle /\ DepIdle /\ RecipeIdle /\ ConfigIdle /\ GenIdle
        /\ OutIdle /\ MapIdle /\ RefIdle /\ LogIdle

SelSpec == SelSpecInit /\ [][SelNext]_vars

\* The ways the selected outputs can be assigned, in order, to the
\* identifiers of the request
Assignments ==
    {f \in [1..Len(selected_outputs) -> 1..Len(output_identifiers[1])] :
        \A i, j \in 1..Len(selected_outputs) : i < j => f[i] < f[j]}

\* C27: with output identifiers given, the selected outputs are pairwise
\* distinct outputs of the recipe and each matches, on every field it
\* specifies, the identifier that selected it.
C27_SelectedDistinctAndMatching ==
    (sel_op = "conda_build" /\ output_identifiers # None) =>
        /\ \A i, j \in 1..Len(selected_outputs) :
               i # j => selected_outputs[i].id # selected_outputs[j].id
        /\ \A i \in 1..Len(selected_outputs) :
               /\ selected_outputs[i].id \in 1..Len(built_outputs)
               /\ built_outputs[selected_outputs[i].id] = selected_outputs[i]
        /\ \E f \in Assignments :
               \A i \in 1..Len(selected_outputs) :
                   identifies(output_identifiers[1][f[i]], selected_outputs[i])

\* Two identifiers that both match the first output select two outputs
C27_Witness ==
    /\ sel_op = "conda_build"
    /\ output_identifiers # None
    /\ Len(output_identifiers[1]) = 2
    /\ \A k \in 1..2 : identifies(output_identifiers[1][k], built_outputs[1])
    /\ Len(selected_outputs) = 2
    /\ selected_outputs[1].id = 1

(***************************************************************************)
(* From a model's targets to the packages of a platform, two ways: by      *)
(* Targets::resolve and the dependency accessors, and by the conversion    *)
(* to conditional requirements followed by their resolution.               *)
(***************************************************************************)
\* The names of each list after ConditionalRequirements::resolve
resolved_names(reqs, plat) ==
    LET names(build, host, run) ==
            IF build.tag # "Ok" THEN build
            ELSE IF host.tag # "Ok" THEN host
            ELSE IF run.tag # "Ok" THEN run
            ELSE Ok([build |-> Keys(build.value), host |-> Keys(host.value),
                     run |-> Keys(run.value)])
    IN names(resolve_dependencies(reqs.build, plat),
             resolve_dependencies(reqs.host, plat),
             resolve_dependencies(reqs.run, plat))

\* from_targets_v1_to_conditional_requirements(targets), then resolve
convert_and_resolve(self, plat) ==
    LET resolve_converted(reqs) ==
            IF reqs.tag # "Ok" THEN reqs
            ELSE resolved_names(reqs.value, plat)
    IN resolve_converted(from_targets_v1_to_conditional_requirements(self))

\* The names of the dependencies of the targets resolve(Some(p)) returns
aggregate(self, plat) ==
    [build |-> Keys(build_dependencies(self, plat)),
     host |-> Keys(host_dependencies(self, plat)),
     run |-> Keys(run_dependencies(self, plat))]

RefSelectors == {SelUnix, SelLinux, SelWin, SelMacOs, SelPlatform("linux-64")}

RefSelectorMaps ==
    UNION {{m \in [1..n -> [selector : RefSelectors, target : ConvTargetPool]] :
              \A i, j \in 1..n : i # j => m[i].selector # m[j].selector}
           : n \in 0..MaxTargets}

RefInit ==
    /\ ref_targets \in [default_target : Options(ConvTargetPool),
                        targets : Options(RefSelectorMaps)]
    /\ ref_platform \in Platforms
    /\ ref_op = "init"
    /\ ref_converted = [tag |-> "Ok", value |-> <<>>, error |-> <<>>]
    /\ ref_aggregated = [build |-> {}, host |-> {}, run |-> {}]

\* Both ways are taken for the same targets and platform
ResolveBothWays ==
    /\ ref_op = "init"
    /\ ref_op' = "resolve"
    /\ ref_converted' = convert_and_resolve(ref_targets, Some(ref_platform))
    /\ ref_aggregated' = aggregate(ref_targets, Some(ref_platform))
    /\ UNCHANGED <<ref_targets, ref_platform>>
    /\ UNCHANGED <<targetVars, eligVars, depVars, recipeVars, configVars, genVars, outVars,
                   mapVars, selVars, logVars>>

RefNext == ResolveBothWays

RefSpecInit ==
    RefInit /\ TargetsIdle /\ EligIdle /\ DepIdle /\ RecipeIdle /\ ConfigIdle /\ GenIdle
        /\ OutIdle /\ MapIdle /\ SelIdle /\ LogIdle

RefSpec == RefSpecInit /\ [][RefNext]_vars

\* C28: for every Targets value and platform, the conditional requirements
\* of the conversion resolved for the platform name the same packages in
\* build, host and run as the targets that Targets::resolve returns for it.
C28_ConversionRefinesResolve ==
    ref_op = "resolve" =>
        /\ ref_converted.tag = "Ok"
        /\ ref_converted.value = ref_aggregated

(***************************************************************************)
(* The constraints of the model's binary dependencies in the converted     *)
(* requirements.                                                           *)
(***************************************************************************)
\* The entries of every dependency map of a target
EntriesOf(target) ==
    Flatten(target.build_dependencies) \o Flatten(target.host_dependencies)
        \o Flatten(target.run_dependencies)

\* The binary dependencies of the model's targets: name and version
\* constraint, "*" being no constraint
ModelBinarySpecs ==
    LET entries ==
            Flatten([i \in 1..Len(ModelTargets.default_target) |->
                        EntriesOf(ModelTargets.default_target[i])])
                \o Flatten([i \in 1..Len(Flatten(ModelTargets.targets)) |->
                              EntriesOf(Flatten(ModelTargets.targets)[i].target)])
        constraint(b) == IF b.version = Some(VersionAny) THEN None ELSE b.version
    IN {SerializableMatchSpec(entries[i].name, constraint(entries[i].spec.binary[1])) :
            i \in {j \in 1..Len(entries) : entries[j].spec.kind = "Binary"}}

\* The dependencies a produced item holds
DependenciesOf(item) ==
    IF item.kind = "Value" THEN item.value[1].concrete
    ELSE item.conditional[1].then \o item.conditional[1].else_value

ProducedBinarySpecs(outcome) ==
    LET produced ==
            Flatten([i \in 1..Len(ProducedItems(outcome)) |->
                        DependenciesOf(ProducedItems(outcome)[i])])
    IN {produced[i].spec : i \in {j \in 1..Len(produced) : produced[j].kind = "Binary"}}

\* C29: the binary dependencies of the model come out of the conversion
\* with their names and their constraints: only those that were wildcard
\* in the model are without a version in the requirements.
C29_BinaryConstraintsPreserved ==
    (/\ conv_op = "from_targets_v1_to_conditional_requirements"
     /\ conv_calls[1].tag = "Ok")
    => ProducedBinarySpecs(conv_calls[1]) = ModelBinarySpecs

(***************************************************************************)
(* The tracing layers of the CLI: events and span batches written by       *)
(* several threads to the one LineWriter<Stderr> behind a Mutex.           *)
(***************************************************************************)
MaxThreads == 2         \* threads that emit
MaxSpans == 2           \* spans of an enumerated batch
LineWriterCapacity == 3 \* bytes the LineWriter buffers

Threads == 1..MaxThreads

\* A byte of the output and the thread whose payload it belongs to
Byte(char, thread) == [char |-> char, from |-> thread]

\* serde_json::to_vec(payload): an object, without a line feed in it
encode_event(thread) == <<Byte("{", thread), Byte("}", thread)>>

encode_batch(thread, spans) ==
    <<Byte("{", thread)>> \o [i \in 1..spans |-> Byte("s", thread)]
        \o <<Byte("}", thread)>>

LineFeed(thread) == <<Byte("LF", thread)>>

\* LineWriter::write_all on stderr: data through its last line feed goes
\* out with what was buffered; other data is buffered, or goes out past a
\* full buffer
line_writer_write(buffer, out, data) ==
    IF \E i \in 1..Len(data) : data[i].char = "LF"
    THEN [buffer |-> <<>>, out |-> out \o buffer \o data]
    ELSE IF Len(buffer) + Len(data) <= LineWriterCapacity
    THEN [buffer |-> buffer \o data, out |-> out]
    ELSE IF Len(data) >= LineWriterCapacity
    THEN [buffer |-> <<>>, out |-> out \o buffer \o data]
    ELSE [buffer |-> data, out |-> out \o buffer]

\* LineWriter::flush
line_writer_flush(buffer, out) == [buffer |-> <<>>, out |-> out \o buffer]

lock_without_mutex(holder) == TRUE

\* self.writer.lock(): the Mutex is free
lock(holder) == holder = 0

LogInit ==
    /\ thread_pc = [t \in Threads |-> "idle"]
    /\ thread_payload = [t \in Threads |-> <<>>]
    /\ writer_lock = 0
    /\ writer_buffer = <<>>
    /\ stderr_bytes = <<>>

LogUnchanged ==
    UNCHANGED <<targetVars, eligVars, depVars, recipeVars, configVars, genVars, outVars,
                mapVars, selVars, refVars>>

\* write_event_line(payload) up to the lock: a null payload returns
WriteEventLine(t) ==
    /\ thread_pc[t] = "idle"
    /\ \E is_null \in BOOLEAN :
         IF is_null
         THEN /\ thread_pc' = [thread_pc EXCEPT ![t] = "done"]
              /\ UNCHANGED thread_payload
         ELSE /\ thread_pc' = [thread_pc EXCEPT ![t] = "lock"]
              /\ thread_payload' = [thread_payload EXCEPT ![t] = encode_event(t)]
    /\ UNCHANGED <<writer_lock, writer_buffer, stderr_bytes>>
    /\ LogUnchanged

\* write_batch(batch) up to the lock: an empty batch returns
WriteBatch(t) ==
    /\ thread_pc[t] = "idle"
    /\ \E spans \in 0..MaxSpans :
         IF spans = 0
         THEN /\ thread_pc' = [thread_pc EXCEPT ![t] = "done"]
              /\ UNCHANGED thread_payload
         ELSE /\ thread_pc' = [thread_pc EXCEPT ![t] = "lock"]
              /\ thread_payload' = [thread_payload EXCEPT ![t] = encode_batch(t, spans)]
    /\ UNCHANGED <<writer_lock, writer_buffer, stderr_bytes>>
    /\ LogUnchanged

\* let guard = self.writer.lock()
Lock(t) ==
    /\ thread_pc[t] = "lock"
    /\ lock(writer_lock)
    /\ writer_lock' = t
    /\ thread_pc' = [thread_pc EXCEPT ![t] = "payload"]
    /\ UNCHANGED <<thread_payload, writer_buffer, stderr_bytes>>
    /\ LogUnchanged

\* guard.write_all(&encoded)
WritePayload(t) ==
    /\ thread_pc[t] = "payload"
    /\ LET written == line_writer_write(writer_buffer, stderr_bytes, thread_payload[t])
       IN /\ writer_buffer' = written.buffer
          /\ stderr_bytes' = written.out
    /\ thread_pc' = [thread_pc EXCEPT ![t] = "newline"]
    /\ UNCHANGED <<thread_payload, writer_lock>>
    /\ LogUnchanged

\* guard.write_all(b"\n")
WriteNewline(t) ==
    /\ thread_pc[t] = "newline"
    /\ LET written == line_writer_write(writer_buffer, stderr_bytes, LineFeed(t))
       IN /\ writer_buffer' = written.buffer
          /\ stderr_bytes' = written.out
    /\ thread_pc' = [thread_pc EXCEPT ![t] = "flush"]
    /\ UNCHANGED <<thread_payload, writer_lock>>
    /\ LogUnchanged

\* guard.flush(), and the guard is dropped
FlushAndUnlock(t) ==
    /\ thread_pc[t] = "flush"
    /\ LET flushed == line_writer_flush(writer_buffer, stderr_bytes)
       IN /\ writer_buffer' = flushed.buffer
          /\ stderr_bytes' = flushed.out
    /\ writer_lock' = IF writer_lock = t THEN 0 ELSE writer_lock
    /\ thread_pc' = [thread_pc EXCEPT ![t] = "done"]
    /\ UNCHANGED thread_payload
    /\ LogUnchanged

LogNext ==
    \E t \in Threads :
        \/ WriteEventLine(t)
        \/ WriteBatch(t)
        \/ Lock(t)
        \/ WritePayload(t)
        \/ WriteNewline(t)
        \/ FlushAndUnlock(t)

LogSpecInit ==
    LogInit /\ TargetsIdle /\ EligIdle /\ DepIdle /\ RecipeIdle /\ ConfigIdle /\ GenIdle
        /\ OutIdle /\ MapIdle /\ SelIdle /\ RefIdle

LogSpec == LogSpecInit /\ [][LogNext]_vars

\* Everything written so far, in the order it reaches stderr
Written == stderr_bytes \o writer_buffer

\* C30: what the threads write is a sequence of whole lines: a payload
\* and its line feed are written next to each other by the thread that
\* holds the writer's lock, with no byte of another payload in between.
C30_WholeLines ==
    /\ \A i \in 1..Len(Written) :
           /\ Written[i].char = "{" <=> (i = 1 \/ Written[i - 1].char = "LF")
           /\ Written[i].char = "LF" => (i > 1 /\ Written[i - 1].char = "}")
           /\ i > 1 /\ Written[i - 1].char # "LF"
                  => Written[i].from = Written[i - 1].from
           /\ (Written[i].char = "}" /\ i < Len(Written)) => Written[i + 1].char = "LF"
    /\ \A t \in Threads :
           thread_pc[t] \in {"payload", "newline", "flush"} => writer_lock = t
    /\ (Written # <<>> /\ Written[Len(Written)].char # "LF") => writer_lock # 0

\* A thread waits for the lock while the one that holds it has written
\* its payload and not yet the line feed
C30_Witness ==
    /\ \E t \in Threads : thread_pc[t] = "lock"
    /\ \E t \in Threads : thread_pc[t] = "newline" /\ writer_lock = t
    /\ Written # <<>>
    /\ Written[Len(Written)].char = "}"
====
